---- MODULE Spec2Model ----
(***************************************************************************)
(* Verification model of github.com/maruel/ask: the sandboxed shell tool   *)
(* (Linux bwrap, macOS sandbox-exec, Windows restricted token and          *)
(* AppContainer), the pipes between the Windows parent and its child, the  *)
(* sendRequest caller that registers the tool, the fragment printer of     *)
(* execRequest and GetBackend.                                             *)
(*                                                                         *)
(* Paths are sequences of components (<<"tmp", "x">> is /tmp/x), output is *)
(* a sequence of lines, a line is a sequence of strings.                   *)
(***************************************************************************)
EXTENDS Integers, Sequences, FiniteSets, TLC

\* Longest list of -f files given to sendRequest.
MaxFiles == 1

\* Longest stream of reply fragments given to execRequest.
MaxFrags == 3

\* Chunks of output a pipe holds before a write to it blocks.
PipeCap == 1

\* Most chunks a child writes.
MaxWrites == 3

\* make(chan string, 100)
ChanCap == 100

VARIABLES
    strategy,      \* which platform implementation of the tool is built
    allowNetwork,  \* the allowNetwork argument of the tool constructor
    hostBins,      \* executables present on the host
    tool,          \* "unbuilt", "built" or "error": result of construction
    ctxCancelled,  \* the caller's context is done
    profile,       \* AppContainer profile "ReadOnlyAppContainer": "none", "stale" or the creating invocation
    fsFiles,       \* temporary files that exist: [owner, kind]
    pc,            \* position of each invocation in the callback
    script,        \* the script of each invocation
    defers,        \* stack of deferred calls of each invocation
    held,          \* OS resources each invocation holds
    child,         \* [st, ip, code, wrote, denied, net, argv, env]: the child process of each invocation
    out,           \* output captured so far by each invocation
    ret,           \* [out, err]: what the callback returned
    sr,            \* the state of sendRequest
    er,            \* the state of execRequest's fragment printer
    gb,            \* one call of GetBackend / getBackend: its arguments and result
    pp,            \* the pipes between a Windows parent and its child
    environ,       \* os.Environ() of the parent: a sequence of <<name, value>>
    sv,            \* execRequest after the stream: the result and the documents to save
    bg,            \* the batch "get" command
    ra,            \* runAsync and its printer goroutine
    mi,            \* the channel-based streaming of mainImpl
    gq             \* one call of gemini Client.Query

sbVars == <<strategy, allowNetwork, hostBins, tool, ctxCancelled, profile, fsFiles,
            pc, script, defers, held, child, out, ret>>
restVars == <<environ, sv, bg, ra, mi, gq>>

vars == <<strategy, allowNetwork, hostBins, tool, ctxCancelled, profile, fsFiles,
          pc, script, defers, held, child, out, ret, sr, er, gb, pp, restVars>>

\* The tool calls that may be in flight at the same time.
Procs == {"a", "b"}

Strategies == {"linux", "darwin", "darwin2", "windows", "winexp"}

IsWindows(s) == s \in {"windows", "winexp"}

IsDarwin(s) == s \in {"darwin", "darwin2"}

Binaries == {"bwrap", "/usr/bin/sandbox-exec", "/usr/zsh", "/bin/zsh"}

(***************************************************************************)
(* Paths and lines                                                         *)
(***************************************************************************)
IsPrefix(p, q) == Len(p) <= Len(q) /\ SubSeq(q, 1, Len(p)) = p

\* The scratch directory of each platform: /tmp, or %TEMP% on Windows.
ScratchDir(s) == IF IsWindows(s) THEN <<"Temp">> ELSE <<"tmp">>

InScratch(s, path) == IsPrefix(ScratchDir(s), path)

\* The paths a script tries to write to.
TestPaths(s) ==
    IF IsWindows(s)
    THEN {<<"Temp", "x">>, <<"Users", "Documents", "x">>, <<"Windows", "x">>}
    ELSE {<<"tmp", "x">>, <<"etc", "x">>, <<"home", "x">>, <<"dev", "shm", "x">>}

\* What the user who runs ask may write to without any sandbox.
HostPermits(s, path) ==
    IF IsWindows(s)
    THEN IsPrefix(<<"Temp">>, path) \/ IsPrefix(<<"Users">>, path)
    ELSE IsPrefix(<<"tmp">>, path) \/ IsPrefix(<<"home">>, path)
         \/ IsPrefix(<<"dev", "shm">>, path)

LineHi == <<"hi">>
LineHello == <<"hello">>
LinePartial == <<"partial">>
LineIP == <<"1.2.3.4">>
LineDenied == <<"permission denied">>
LineNoNet == <<"curl: (6) Could not resolve host">>
LineBadOption == <<"bash: --: invalid option">>
LineNoInterp == <<"sandbox-exec: execvp() failed: No such file or directory">>

\* regexp \d{1,3}\.\d{1,3}\.\d{1,3}\.\d{1,3} applied to the returned text.
MatchesIPv4(o) == \E k \in 1..Len(o) : \E j \in 1..Len(o[k]) : o[k][j] = "1.2.3.4"

\* The line appears in the text with its content intact.
ContainsLine(o, line) ==
    \E k \in 1..Len(o) :
        /\ Len(o[k]) >= Len(line)
        /\ SubSeq(o[k], Len(o[k]) - Len(line) + 1, Len(o[k])) = line

(***************************************************************************)
(* Linux policy: the bwrap argument vector                                 *)
(***************************************************************************)
BwrapArgs(cmd) ==
    <<"--ro-bind", "/", "/", "--tmpfs", "/tmp", "--dev", "/dev", "--proc", "/proc",
      "--", "bash", "-c", cmd>>

Components(p) ==
    CASE p = "/" -> <<>>
      [] p = "/tmp" -> <<"tmp">>
      [] p = "/dev" -> <<"dev">>
      [] p = "/proc" -> <<"proc">>
      [] OTHER -> <<p>>

\* bwrap reads its options in order up to "--"; each mount option adds a mount.
RECURSIVE BwrapMounts(_, _)
BwrapMounts(args, k) ==
    IF k > Len(args) \/ args[k] = "--" THEN <<>>
    ELSE IF args[k] = "--ro-bind"
         THEN <<[kind |-> "ro-bind", dest |-> Components(args[k + 2])]>>
              \o BwrapMounts(args, k + 3)
    ELSE IF args[k] \in {"--tmpfs", "--dev", "--proc"}
         THEN <<[kind |-> args[k], dest |-> Components(args[k + 1])]>>
              \o BwrapMounts(args, k + 2)
    ELSE BwrapMounts(args, k + 1)

RECURSIVE BwrapOptions(_, _)
BwrapOptions(args, k) ==
    IF k > Len(args) \/ args[k] = "--" THEN {}
    ELSE {args[k]} \cup BwrapOptions(args, k + 1)

\* The mount that serves a path is the last one mounted over it.
MountFor(mounts, path) ==
    LET hits == {k \in 1..Len(mounts) : IsPrefix(mounts[k].dest, path)}
    IN  IF hits = {} THEN [kind |-> "none", dest |-> <<>>]
        ELSE mounts[CHOOSE k \in hits : \A j \in hits : j <= k]

\* A fresh tmpfs is writable, and so is the tmpfs that --dev mounts on /dev.
BwrapWritePermitted(args, path) ==
    MountFor(BwrapMounts(args, 1), path).kind \in {"--tmpfs", "--dev"}

\* The child shares the host's network namespace unless it is unshared.
BwrapNetPermitted(args) ==
    BwrapOptions(args, 1) \cap {"--unshare-net", "--unshare-all"} = {}

(***************************************************************************)
(* macOS policy: the Seatbelt profile                                      *)
(***************************************************************************)
Rule(act, op, sub) == [act |-> act, op |-> op, sub |-> sub]

NoFilter == <<"*">>

\* const sb of the version that checks for sandbox-exec and zsh.
sb ==
    << Rule("deny", "default", NoFilter),
       Rule("deny", "network*", NoFilter),
       Rule("allow", "process-exec", NoFilter),
       Rule("allow", "file-read*", NoFilter),
       Rule("deny", "file-write*", NoFilter),
       Rule("allow", "sysctl-read", NoFilter),
       Rule("allow", "mach-lookup", NoFilter),
       Rule("allow", "file-write*", <<"tmp">>) >>

\* const sb of the version without the network clause.
sb2 ==
    << Rule("deny", "default", NoFilter),
       Rule("allow", "process-exec", NoFilter),
       Rule("allow", "file-read*", NoFilter),
       Rule("deny", "file-write*", NoFilter),
       Rule("allow", "sysctl-read", NoFilter),
       Rule("allow", "mach-lookup", NoFilter),
       Rule("allow", "file-write*", <<"tmp">>) >>

OpMatches(ruleOp, op) ==
    \/ ruleOp = op
    \/ ruleOp = "file-write*" /\ op \in {"file-write-create", "file-write-data"}
    \/ ruleOp = "file-read*" /\ op \in {"file-read-data"}
    \/ ruleOp = "network*" /\ op \in {"network-outbound", "network-inbound"}

RuleMatches(r, op, path) ==
    /\ OpMatches(r.op, op)
    /\ r.sub = NoFilter \/ IsPrefix(r.sub, path)

\* The last rule that matches the operation decides; (deny default) decides
\* when no rule matches.
SeatbeltAllows(rules, op, path) ==
    LET hits == {k \in 1..Len(rules) : RuleMatches(rules[k], op, path)}
        dflt == {k \in 1..Len(rules) : rules[k].op = "default"}
    IN  IF hits # {}
        THEN rules[CHOOSE k \in hits : \A j \in hits : j <= k].act = "allow"
        ELSE IF dflt # {}
        THEN rules[CHOOSE k \in dflt : \A j \in dflt : j <= k].act = "allow"
        ELSE TRUE

ProfileOf(s) == IF s = "darwin" THEN sb ELSE sb2

(***************************************************************************)
(* Windows policy: restricted token, capabilities, startup info            *)
(***************************************************************************)
WELL_KNOWN_SID_CAPABILITY_DOCUMENTS_LIBRARY == "S-1-15-3-1"
WELL_KNOWN_SID_CAPABILITY_PICTURES_LIBRARY == "S-1-15-3-2"
WELL_KNOWN_SID_CAPABILITY_VIDEOS_LIBRARY == "S-1-15-3-3"
WELL_KNOWN_SID_CAPABILITY_MUSIC_LIBRARY == "S-1-15-3-4"
WELL_KNOWN_SID_CAPABILITY_REMOVABLE_STORAGE == "S-1-15-3-5"
WELL_KNOWN_SID_CAPABILITY_INTERNET_CLIENT == "S-1-15-3-1"
WELL_KNOWN_SID_CAPABILITY_INTERNET_CLIENT_SERVER == "S-1-15-3-2"
WELL_KNOWN_SID_CAPABILITY_PRIVATE_NETWORK_CLIENT_SERVER == "S-1-15-3-3"

\* The capability list of runWithAppContainer.
caps ==
    { WELL_KNOWN_SID_CAPABILITY_DOCUMENTS_LIBRARY,
      WELL_KNOWN_SID_CAPABILITY_PICTURES_LIBRARY,
      WELL_KNOWN_SID_CAPABILITY_VIDEOS_LIBRARY,
      WELL_KNOWN_SID_CAPABILITY_MUSIC_LIBRARY,
      WELL_KNOWN_SID_CAPABILITY_REMOVABLE_STORAGE,
      WELL_KNOWN_SID_CAPABILITY_INTERNET_CLIENT,
      WELL_KNOWN_SID_CAPABILITY_INTERNET_CLIENT_SERVER,
      WELL_KNOWN_SID_CAPABILITY_PRIVATE_NETWORK_CLIENT_SERVER }

\* setupAppContainerAttributes: the Update call that would attach the
\* security capabilities sits under "if false", so the list stays empty.
setupAppContainerAttributes(secCaps) ==
    IF FALSE THEN {[attr |-> "SECURITY_CAPABILITIES", val |-> secCaps]} ELSE {}

\* How runWithAppContainer creates the child (the allowNetwork argument of
\* getShellTool is not used anywhere).
WinLaunch ==
    [ tokenFlags |-> {"DISABLE_MAX_PRIVILEGE", "LUA_TOKEN"},
      restrictSids |-> {},
      attrList |-> setupAppContainerAttributes([sid |-> "ReadOnlyAppContainer", caps |-> caps]),
      startFlags |-> {"STARTF_USESHOWWINDOW", "STARTF_USESTDHANDLES"},
      inheritHandles |-> TRUE,
      stdout |-> "pipeW", stderr |-> "pipeW" ]

\* How runWithRestrictedAppContainer creates the child.
WinExpLaunch ==
    [ tokenFlags |-> {"DISABLE_MAX_PRIVILEGE", "LUA_TOKEN", "WRITE_RESTRICTED"},
      restrictSids |-> {},
      attrList |-> {},
      startFlags |-> {"STARTF_USESHOWWINDOW"},
      inheritHandles |-> FALSE,
      stdout |-> "pipeW", stderr |-> "errW" ]

LaunchOf(s) == IF s = "windows" THEN WinLaunch ELSE WinExpLaunch

\* The child runs inside the AppContainer only when the attribute list
\* carries the security capabilities.
SecCapsOf(l) == {a \in l.attrList : a.attr = "SECURITY_CAPABILITIES"}

InAppContainer(l) == SecCapsOf(l) # {}

GrantedCaps(l) == UNION {a.val.caps : a \in SecCapsOf(l)}

\* Restricting SIDs limit writes only when the token has some.
WinWritePermitted(l, path) ==
    /\ l.restrictSids = {}
    /\ InAppContainer(l) =>
          /\ IsPrefix(<<"Users", "Documents">>, path)
          /\ WELL_KNOWN_SID_CAPABILITY_DOCUMENTS_LIBRARY \in GrantedCaps(l)

WinNetPermitted(l) ==
    InAppContainer(l) => WELL_KNOWN_SID_CAPABILITY_INTERNET_CLIENT \in GrantedCaps(l)

\* The child's standard handles reach the parent's pipes only when the
\* startup info says so and handles are inherited.
WinStdHandlesPassed(l) ==
    "STARTF_USESTDHANDLES" \in l.startFlags /\ l.inheritHandles

(***************************************************************************)
(* The policy the child of each strategy runs under                        *)
(***************************************************************************)
WritePermitted(s, path) ==
    /\ HostPermits(s, path)
    /\ CASE s = "linux" -> BwrapWritePermitted(BwrapArgs("script"), path)
         [] IsDarwin(s) -> SeatbeltAllows(ProfileOf(s), "file-write-create", path)
         [] OTHER -> WinWritePermitted(LaunchOf(s), path)

NetPermitted(s) ==
    CASE s = "linux" -> BwrapNetPermitted(BwrapArgs("script"))
      [] IsDarwin(s) -> SeatbeltAllows(ProfileOf(s), "network-outbound", <<>>)
      [] OTHER -> WinNetPermitted(LaunchOf(s))

\* Which of the child's streams end up in the returned string, and with
\* which prefix: cmd.Output (stdout only), cmd.CombinedOutput, one shared
\* pipe, or two prefixed pipes.
Captured(s, stream) ==
    CASE s = "linux" -> stream = "out"
      [] IsDarwin(s) -> TRUE
      [] OTHER -> WinStdHandlesPassed(LaunchOf(s))

Prefix(s, stream) ==
    IF s = "winexp"
    THEN IF stream = "out" THEN <<"[STDOUT] ">> ELSE <<"[STDERR] ">>
    ELSE <<>>

(***************************************************************************)
(* Scripts: what the model asks the tool to run                            *)
(***************************************************************************)
Op(k, a) == [k |-> k, a |-> a]

Script(name, ops, exit, loop) == [name |-> name, ops |-> ops, exit |-> exit, loop |-> loop]

\* "echo hi; echo hello >&2", a write to each test path, "curl -sS ifconfig.co",
\* a script that prints and exits 3, one that never ends by itself and, for
\* bash -c, a command line that reads like an option of bwrap.
Scripts(s) ==
    { Script("echo", <<Op("out", LineHi), Op("err", LineHello)>>, 0, FALSE),
      Script("curl", <<Op("net", <<>>)>>, 0, FALSE),
      Script("fail", <<Op("out", LinePartial)>>, 3, FALSE),
      Script("sleep", <<>>, 0, TRUE) }
    \cup { Script("touch", <<Op("write", path)>>, 0, FALSE) : path \in TestPaths(s) }
    \cup (IF s = "linux"
          THEN {Script("--bind / /", <<Op("err", LineBadOption)>>, 2, FALSE)}
          ELSE {})

(***************************************************************************)
(* Errors, files, deferred calls                                           *)
(***************************************************************************)
Err(kind, code) == [kind |-> kind, code |-> code]

NilErr == Err("nil", 0)

NoRet == [out |-> <<>>, err |-> Err("unset", 0)]

NoChild ==
    [ st |-> "none", ip |-> 1, code |-> 0, wrote |-> {}, denied |-> {}, net |-> "none",
      argv |-> <<>>, env |-> <<>> ]

File(p, kind) == [owner |-> p, kind |-> kind]

Front(q) == SubSeq(q, 1, Len(q) - 1)

\* writeTempFile: the file that is left behind and the error returned when
\* os.CreateTemp, f.WriteString or f.Close fails, or none does.
writeTempFile(outcome) ==
    CASE outcome = "create" -> [exists |-> FALSE, err |-> TRUE]
      [] outcome = "write" -> [exists |-> FALSE, err |-> TRUE]
      [] outcome = "close" -> [exists |-> TRUE, err |-> TRUE]
      [] OTHER -> [exists |-> TRUE, err |-> FALSE]

TempOutcomes == {"ok", "create", "write", "close"}

\* The effect of one deferred call on the files, the resources held by the
\* invocation and the AppContainer profile.
ApplyDefer(d, st, p) ==
    CASE d = "rm_sb" -> [st EXCEPT !.files = @ \ {File(p, "sb")}]
      [] d = "rm_sh" -> [st EXCEPT !.files = @ \ {File(p, "sh")}]
      [] d = "rm_ps1" -> [st EXCEPT !.files = @ \ {File(p, "ps1")}]
      [] d = "del_profile" -> [st EXCEPT !.profile = "none", !.held = @ \ {"profile"}]
      [] d = "del_attr" -> [st EXCEPT !.held = @ \ {"attr"}]
      [] d = "close_token" -> [st EXCEPT !.held = @ \ {"token"}]
      [] d = "close_rtoken" -> [st EXCEPT !.held = @ \ {"rtoken"}]
      [] d = "close_pipeR" -> [st EXCEPT !.held = @ \ {"pipeR"}]
      [] d = "close_pipeW" -> [st EXCEPT !.held = @ \ {"pipeW"}]
      [] d = "close_errR" -> [st EXCEPT !.held = @ \ {"errR"}]
      [] d = "close_errW" -> [st EXCEPT !.held = @ \ {"errW"}]
      [] d = "close_proc" -> [st EXCEPT !.held = @ \ {"proc"}]
      [] d = "close_thread" -> [st EXCEPT !.held = @ \ {"thread"}]
      [] OTHER -> st

\* A function returns: its deferred calls run last in, first out, down to the
\* frame of its caller.
RECURSIVE RunDefers(_, _, _)
RunDefers(ds, st, p) ==
    IF ds = <<>> THEN [st EXCEPT !.rest = <<>>]
    ELSE IF ds[Len(ds)] = "frame" THEN [st EXCEPT !.rest = Front(ds)]
    ELSE RunDefers(Front(ds), ApplyDefer(ds[Len(ds)], st, p), p)

Cur(p) == [files |-> fsFiles, held |-> held[p], profile |-> profile, rest |-> <<>>]

\* Return (o, e) from the current function of invocation p, which the step
\* left in state st0, and go to pc q.
ReturnFrom(p, st0, o, e, q) ==
    LET st == RunDefers(defers[p], st0, p)
    IN  /\ fsFiles' = st.files
        /\ held' = [held EXCEPT ![p] = st.held]
        /\ profile' = st.profile
        /\ defers' = [defers EXCEPT ![p] = st.rest]
        /\ ret' = [ret EXCEPT ![p] = [out |-> o, err |-> e]]
        /\ pc' = [pc EXCEPT ![p] = q]

Return(p, o, e, q) == ReturnFrom(p, Cur(p), o, e, q)

\* The deferred calls of the current function, the one named bad failing:
\* the file, handle or profile it was to release stays.
RECURSIVE RunDefersBut(_, _, _, _)
RunDefersBut(ds, st, p, bad) ==
    IF ds = <<>> THEN [st EXCEPT !.rest = <<>>]
    ELSE IF ds[Len(ds)] = "frame" THEN [st EXCEPT !.rest = Front(ds)]
    ELSE RunDefersBut(Front(ds),
                      IF ds[Len(ds)] = bad THEN st ELSE ApplyDefer(ds[Len(ds)], st, p),
                      p, bad)

\* The deferred calls the current function has registered.
RECURSIVE FrameDefers(_)
FrameDefers(ds) ==
    IF ds = <<>> \/ ds[Len(ds)] = "frame" THEN {}
    ELSE {ds[Len(ds)]} \cup FrameDefers(Front(ds))

\* A return whose failed cleanup step replaces the error of the run.
ReturnFailingErr(p, st0, o, e, q, bad) ==
    LET st == RunDefersBut(defers[p], st0, p, bad)
    IN  /\ fsFiles' = st.files
        /\ held' = [held EXCEPT ![p] = st.held]
        /\ profile' = st.profile
        /\ defers' = [defers EXCEPT ![p] = st.rest]
        /\ ret' = [ret EXCEPT ![p] = [out |-> o, err |-> Err("cleanup", 0)]]
        /\ pc' = [pc EXCEPT ![p] = q]

\* Return (o, e) while the deferred call bad fails: "defer os.Remove(...)",
\* "defer windows.CloseHandle(...)" and "_ = ..." drop the error.
ReturnFailing(p, st0, o, e, q, bad) ==
    LET st == RunDefersBut(defers[p], st0, p, bad)
    IN  /\ fsFiles' = st.files
        /\ held' = [held EXCEPT ![p] = st.held]
        /\ profile' = st.profile
        /\ defers' = [defers EXCEPT ![p] = st.rest]
        /\ ret' = [ret EXCEPT ![p] = [out |-> o, err |-> e]]
        /\ pc' = [pc EXCEPT ![p] = q]

\* The step succeeded: it leaves state st0, registers the deferred calls ds
\* and goes on to pc q.
Continue(p, st0, ds, q) ==
    /\ fsFiles' = st0.files
    /\ held' = [held EXCEPT ![p] = st0.held]
    /\ profile' = st0.profile
    /\ defers' = [defers EXCEPT ![p] = @ \o ds]
    /\ pc' = [pc EXCEPT ![p] = q]
    /\ ret' = ret

(***************************************************************************)
(* Tool construction                                                       *)
(***************************************************************************)
LookPath(bins, name) == name \in bins

\* getShellTool / getSandbox of each strategy: TRUE when a tool is returned.
darwinLookups == <<"/usr/bin/sandbox-exec", "/usr/zsh">>

ToolConstruct(s, bins) ==
    CASE s = "linux" -> LookPath(bins, "bwrap")
      [] s = "darwin" -> \A k \in 1..Len(darwinLookups) : LookPath(bins, darwinLookups[k])
      [] OTHER -> TRUE

\* The executables the callback of each strategy runs.
ExecBins(s) ==
    CASE s = "linux" -> {"bwrap"}
      [] IsDarwin(s) -> {"/usr/bin/sandbox-exec", "/bin/zsh"}
      [] OTHER -> {}

ToolName(s) ==
    CASE s = "linux" -> "bash"
      [] IsDarwin(s) -> "zsh"
      [] s = "windows" -> "powershell"
      [] OTHER -> "cmd.exe"

Construct ==
    /\ tool = "unbuilt"
    /\ sr.pc = "off"
    /\ tool' = IF ToolConstruct(strategy, hostBins) THEN "built" ELSE "error"
    /\ UNCHANGED <<strategy, allowNetwork, hostBins, ctxCancelled, profile, fsFiles,
                   pc, script, defers, held, child, out, ret, sr, er, gb, pp, restVars>>

\* The tool-call loop calls the callback with a script.
Invoke(p) ==
    /\ tool = "built"
    /\ pc[p] = "idle"
    /\ \E sc \in Scripts(strategy) : script' = [script EXCEPT ![p] = sc]
    /\ pc' = [pc EXCEPT ![p] = "start"]
    /\ UNCHANGED <<strategy, allowNetwork, hostBins, tool, ctxCancelled, profile, fsFiles,
                   defers, held, child, out, ret, sr, er, gb, pp, restVars>>

\* The caller cancels the context while a call is in progress.
CancelCtx ==
    /\ ~ctxCancelled
    /\ \E p \in Procs : pc[p] \notin {"idle", "done"}
    /\ ctxCancelled' = TRUE
    /\ UNCHANGED <<strategy, allowNetwork, hostBins, tool, profile, fsFiles,
                   pc, script, defers, held, child, out, ret, sr, er, gb, pp, restVars>>

(***************************************************************************)
(* The child process                                                       *)
(***************************************************************************)
Capture(s, o, stream, line) ==
    IF Captured(s, stream) THEN Append(o, Prefix(s, stream) \o line) ELSE o

\* The child runs the next command of its script under the policy.
ChildStep(p) ==
    /\ child[p].st = "running"
    /\ child[p].ip <= Len(script[p].ops)
    /\ LET op == script[p].ops[child[p].ip]
           c == [child[p] EXCEPT !.ip = @ + 1]
       IN  CASE op.k = "out" ->
                  /\ child' = [child EXCEPT ![p] = [c EXCEPT !.code = 0]]
                  /\ out' = [out EXCEPT ![p] = Capture(strategy, @, "out", op.a)]
             [] op.k = "err" ->
                  /\ child' = [child EXCEPT ![p] = [c EXCEPT !.code = 0]]
                  /\ out' = [out EXCEPT ![p] = Capture(strategy, @, "err", op.a)]
             [] op.k = "write" ->
                  IF WritePermitted(strategy, op.a)
                  THEN /\ child' = [child EXCEPT ![p] = [c EXCEPT !.code = 0, !.wrote = @ \cup {op.a}]]
                       /\ out' = out
                  ELSE /\ child' = [child EXCEPT ![p] = [c EXCEPT !.code = 1, !.denied = @ \cup {op.a}]]
                       /\ out' = [out EXCEPT ![p] = Capture(strategy, @, "err", LineDenied)]
             [] OTHER ->
                  IF NetPermitted(strategy)
                  THEN /\ child' = [child EXCEPT ![p] = [c EXCEPT !.code = 0, !.net = "ok"]]
                       /\ out' = [out EXCEPT ![p] = Capture(strategy, @, "out", LineIP)]
                  ELSE /\ child' = [child EXCEPT ![p] = [c EXCEPT !.code = 6, !.net = "denied"]]
                       /\ out' = [out EXCEPT ![p] = Capture(strategy, @, "err", LineNoNet)]
    /\ UNCHANGED <<strategy, allowNetwork, hostBins, tool, ctxCancelled, profile, fsFiles,
                   pc, script, defers, held, ret, sr, er, gb, pp, restVars>>

\* The script is over: the child exits with the script's exit code, or with
\* the code of its last command.
ChildExit(p) ==
    /\ child[p].st = "running"
    /\ child[p].ip > Len(script[p].ops)
    /\ ~script[p].loop
    /\ child' = [child EXCEPT ![p] = [@ EXCEPT !.st = "exited",
                    !.code = IF script[p].exit # 0 THEN script[p].exit ELSE @]]
    /\ UNCHANGED <<strategy, allowNetwork, hostBins, tool, ctxCancelled, profile, fsFiles,
                   pc, script, defers, held, out, ret, sr, er, gb, pp, restVars>>

(***************************************************************************)
(* macOS and Linux callbacks                                               *)
(***************************************************************************)
\* askSB, err := writeTempFile("ask.*.sb", sb); defer os.Remove(askSB)
DarwinWriteProfile(p) ==
    /\ IsDarwin(strategy)
    /\ pc[p] = "start"
    /\ \E o \in TempOutcomes :
         LET r == writeTempFile(o)
             st == [Cur(p) EXCEPT !.files = IF r.exists THEN @ \cup {File(p, "sb")} ELSE @]
         IN  IF r.err
             THEN ReturnFrom(p, st, <<>>, Err("setup", 0), "done")
             ELSE Continue(p, st, <<"rm_sb">>, "sb_written")
    /\ UNCHANGED <<strategy, allowNetwork, hostBins, tool, ctxCancelled,
                   script, child, out, sr, er, gb, pp, restVars>>

\* script, err := writeTempFile("ask.*.sh", args.Script); defer os.Remove(script)
DarwinWriteScript(p) ==
    /\ IsDarwin(strategy)
    /\ pc[p] = "sb_written"
    /\ \E o \in TempOutcomes :
         LET r == writeTempFile(o)
             st == [Cur(p) EXCEPT !.files = IF r.exists THEN @ \cup {File(p, "sh")} ELSE @]
         IN  IF r.err
             THEN ReturnFrom(p, st, <<>>, Err("setup", 0), "done")
             ELSE Continue(p, st, <<"rm_sh">>, "launch")
    /\ UNCHANGED <<strategy, allowNetwork, hostBins, tool, ctxCancelled,
                   script, child, out, sr, er, gb, pp, restVars>>

\* exec.CommandContext(ctx, ...) and the start of cmd.CombinedOutput / cmd.Output:
\* nothing starts when the context is done or the executable is missing;
\* sandbox-exec itself fails when it cannot execute the interpreter.
\* os/exec dedupEnv: of the entries with the same name the last one stays.
RECURSIVE dedupEnv(_)
dedupEnv(env) ==
    IF env = <<>> THEN <<>>
    ELSE IF \E k \in 2..Len(env) : env[k][1] = env[1][1]
    THEN dedupEnv(Tail(env))
    ELSE <<env[1]>> \o dedupEnv(Tail(env))

\* The environment block of the child: cmd.Env = append(os.Environ(), "LANG=C")
\* with bwrap and sandbox-exec; a nil lpEnvironment, that is the parent's
\* block, with CreateProcessAsUser.
ChildEnviron(s, env) ==
    IF IsWindows(s) THEN env ELSE dedupEnv(Append(env, <<"LANG", "C">>))

\* A callback that hands bash a script file instead of the command line.
ExecArgvFile(s, sc) ==
    IF s = "linux"
    THEN <<"bwrap">> \o SubSeq(BwrapArgs(sc.name), 1, 11) \o <<"ask.sh">>
    ELSE <<"/usr/bin/sandbox-exec", "-f", "ask.sb", "/bin/zsh", "ask.sh">>

\* exec.CommandContext(ctx, name, arg...): the argument vector of the child.
ExecArgv(s, sc) ==
    IF s = "linux"
    THEN <<"bwrap">> \o BwrapArgs(sc.name)
    ELSE <<"/usr/bin/sandbox-exec", "-f", "ask.sb", "/bin/zsh", "ask.sh">>

ExecStart(p) ==
    /\ \/ strategy = "linux" /\ pc[p] = "start"
       \/ IsDarwin(strategy) /\ pc[p] = "launch"
    /\ LET first == IF strategy = "linux" THEN "bwrap" ELSE "/usr/bin/sandbox-exec"
       IN  IF ctxCancelled
           THEN /\ child' = [child EXCEPT ![p] = [@ EXCEPT !.st = "nostart_ctx",
                                                     !.argv = ExecArgv(strategy, script[p]),
                                                     !.env = ChildEnviron(strategy, environ)]]
                /\ out' = out
           ELSE IF ~LookPath(hostBins, first)
           THEN /\ child' = [child EXCEPT ![p] = [@ EXCEPT !.st = "nostart_missing",
                                                     !.argv = ExecArgv(strategy, script[p]),
                                                     !.env = ChildEnviron(strategy, environ)]]
                /\ out' = out
           ELSE IF IsDarwin(strategy) /\ ~LookPath(hostBins, "/bin/zsh")
           THEN /\ child' = [child EXCEPT ![p] = [@ EXCEPT !.st = "exited", !.code = 71,
                                                     !.argv = ExecArgv(strategy, script[p]),
                                                     !.env = ChildEnviron(strategy, environ)]]
                /\ out' = [out EXCEPT ![p] = Capture(strategy, @, "err", LineNoInterp)]
           ELSE /\ child' = [child EXCEPT ![p] = [@ EXCEPT !.st = "running",
                                                     !.argv = ExecArgv(strategy, script[p]),
                                                     !.env = ChildEnviron(strategy, environ)]]
                /\ out' = out
    /\ pc' = [pc EXCEPT ![p] = "running"]
    /\ UNCHANGED <<strategy, allowNetwork, hostBins, tool, ctxCancelled, profile, fsFiles,
                   script, defers, held, ret, sr, er, gb, pp, restVars>>

\* exec.CommandContext kills the child once the context is done.
Kill(p) ==
    /\ ~IsWindows(strategy)
    /\ ctxCancelled
    /\ pc[p] = "running"
    /\ child[p].st = "running"
    /\ child' = [child EXCEPT ![p] = [@ EXCEPT !.st = "killed"]]
    /\ UNCHANGED <<strategy, allowNetwork, hostBins, tool, ctxCancelled, profile, fsFiles,
                   pc, script, defers, held, out, ret, sr, er, gb, pp, restVars>>

\* The error cmd.CombinedOutput / cmd.Output returns for the child's end.
ExecErr(c) ==
    CASE c.st = "exited" /\ c.code = 0 -> NilErr
      [] c.st = "exited" /\ c.code # 0 -> Err("exit", c.code)
      [] c.st = "killed" -> Err("killed", 0 - 1)
      [] c.st = "nostart_ctx" -> Err("ctx", 0)
      [] OTHER -> Err("notfound", 0)

\* cmd.CombinedOutput / cmd.Output returns; return string(out), err2 and the
\* deferred os.Remove calls.
ExecReturn(p) ==
    /\ ~IsWindows(strategy)
    /\ pc[p] = "running"
    /\ child[p].st # "running"
    /\ Return(p, out[p], ExecErr(child[p]), "done")
    /\ UNCHANGED <<strategy, allowNetwork, hostBins, tool, ctxCancelled,
                   script, child, out, sr, er, gb, pp, restVars>>

\* The macOS callback returns while one of its deferred os.Remove fails.
ExecReturnCleanup(p) ==
    /\ ~IsWindows(strategy)
    /\ pc[p] = "running"
    /\ child[p].st # "running"
    /\ \E bad \in FrameDefers(defers[p]) :
         ReturnFailing(p, Cur(p), out[p], ExecErr(child[p]), "done", bad)
    /\ UNCHANGED <<strategy, allowNetwork, hostBins, tool, ctxCancelled,
                   script, child, out, sr, er, gb, pp, restVars>>

(***************************************************************************)
(* Windows: the AppContainer profile, shared by name                       *)
(***************************************************************************)
Acquire(p, rs) == [Cur(p) EXCEPT !.held = @ \cup rs]

\* Where a failed step of the run function returns to: the powershell
\* callback goes on after runWithAppContainer, the cmd.exe callback returns
\* what runWithRestrictedAppContainer returned.
AfterRun(s) == IF s = "windows" THEN "w_cb" ELSE "done"

\* Fail without the error: return "", nil.
FailQuiet(p, st) == ReturnFrom(p, st, <<>>, NilErr, AfterRun(strategy))

\* return "", err: a failed setup step of a Windows run function.
Fail(p, st) == ReturnFrom(p, st, <<>>, Err("setup", 0), AfterRun(strategy))

\* createContainer, first CreateAppContainerProfile call: it succeeds,
\* reports that the profile exists, or fails otherwise.
CreateContainer(p) ==
    /\ \/ strategy = "windows" /\ pc[p] = "w_container"
       \/ strategy = "winexp" /\ pc[p] = "start"
    /\ IF profile # "none"
       THEN /\ pc' = [pc EXCEPT ![p] = "container_retry"]
            /\ UNCHANGED <<profile, fsFiles, defers, held, ret>>
       ELSE \E ok \in BOOLEAN :
              IF ok
              THEN Continue(p, [Acquire(p, {"profile"}) EXCEPT !.profile = p],
                            IF strategy = "windows" THEN <<"del_profile">> ELSE <<>>,
                            IF strategy = "windows" THEN "w_sid" ELSE "x_token")
              ELSE Fail(p, Cur(p))
    /\ UNCHANGED <<strategy, allowNetwork, hostBins, tool, ctxCancelled,
                   script, child, out, sr, er, gb, pp, restVars>>

\* createContainer taking the profile that exists as it is.
CreateContainerReuse(p) ==
    /\ pc[p] = "container_retry"
    /\ Continue(p, Acquire(p, {"profile"}),
                IF strategy = "windows" THEN <<"del_profile">> ELSE <<>>,
                IF strategy = "windows" THEN "w_sid" ELSE "x_token")
    /\ UNCHANGED <<strategy, allowNetwork, hostBins, tool, ctxCancelled,
                   script, child, out, sr, er, gb, pp, restVars>>

\* createContainer when the profile exists: DeleteAppContainerProfile, then
\* CreateAppContainerProfile again.
CreateContainerRetry(p) ==
    /\ pc[p] = "container_retry"
    /\ \E ok \in BOOLEAN :
         IF ok
         THEN Continue(p, [Acquire(p, {"profile"}) EXCEPT !.profile = p],
                       IF strategy = "windows" THEN <<"del_profile">> ELSE <<>>,
                       IF strategy = "windows" THEN "w_sid" ELSE "x_token")
         ELSE Fail(p, [Cur(p) EXCEPT !.profile = "none"])
    /\ UNCHANGED <<strategy, allowNetwork, hostBins, tool, ctxCancelled,
                   script, child, out, sr, er, gb, pp, restVars>>

(***************************************************************************)
(* Windows: the powershell callback and runWithAppContainer                *)
(***************************************************************************)
\* A step of a run function that either fails, and the function returns
\* ("", err), or acquires the resources rs and defers the calls ds.
SetupStep(p, from, rs, ds, to) ==
    /\ pc[p] = from
    /\ \E ok \in BOOLEAN :
         IF ok THEN Continue(p, Acquire(p, rs), ds, to) ELSE Fail(p, Cur(p))
    /\ UNCHANGED <<strategy, allowNetwork, hostBins, tool, ctxCancelled,
                   script, child, out, sr, er, gb, pp, restVars>>

\* scriptPath, err := writeTempFile("ask.*.ps1", args.Script); defer os.Remove(scriptPath)
WinWriteScript(p) ==
    /\ strategy = "windows"
    /\ pc[p] = "start"
    /\ \E o \in TempOutcomes :
         LET r == writeTempFile(o)
             st == [Cur(p) EXCEPT !.files = IF r.exists THEN @ \cup {File(p, "ps1")} ELSE @]
         IN  IF r.err
             THEN ReturnFrom(p, st, <<>>, Err("setup", 0), "done")
             ELSE Continue(p, st, <<"rm_ps1", "frame">>, "w_token")
    /\ UNCHANGED <<strategy, allowNetwork, hostBins, tool, ctxCancelled,
                   script, child, out, sr, er, gb, pp, restVars>>

\* windows.OpenProcessToken; defer token.Close()
WinOpenToken(p) ==
    strategy = "windows" /\ SetupStep(p, "w_token", {"token"}, <<"close_token">>, "w_restrict")

\* CreateRestrictedToken; defer windows.CloseHandle(restrictedToken)
WinRestrictToken(p) ==
    strategy = "windows" /\ SetupStep(p, "w_restrict", {"rtoken"}, <<"close_rtoken">>, "w_caps")

\* createCapabilitySIDs(caps)
WinCapabilitySIDs(p) ==
    strategy = "windows" /\ SetupStep(p, "w_caps", {}, <<>>, "w_container")

\* createAppContainerSid(profileName)
WinDeriveSid(p) ==
    strategy = "windows" /\ SetupStep(p, "w_sid", {}, <<>>, "w_attr")

\* setupAppContainerAttributes(&secCaps); defer attrListCtr.Delete()
WinSetupAttributes(p) ==
    strategy = "windows" /\ SetupStep(p, "w_attr", {"attr"}, <<"del_attr">>, "w_pipe")

\* createPipe(); defer CloseHandle(stdoutRead); defer CloseHandle(stdoutWrite)
WinCreatePipe(p) ==
    strategy = "windows"
    /\ SetupStep(p, "w_pipe", {"pipeR", "pipeW"}, <<"close_pipeR", "close_pipeW">>, "w_create")

\* The child starts running.
Started(p) ==
    /\ child' = [child EXCEPT ![p] = [@ EXCEPT !.st = "running",
                                              !.env = ChildEnviron(strategy, environ)]]
    /\ UNCHANGED <<strategy, allowNetwork, hostBins, tool, ctxCancelled, script, out, sr, er, gb, pp, restVars>>

\* windows.CreateProcessAsUser; defer CloseHandle(pi.Process); defer CloseHandle(pi.Thread)
WinCreateProcess(p) ==
    /\ strategy = "windows"
    /\ pc[p] = "w_create"
    /\ \E ok \in BOOLEAN :
         IF ok
         THEN /\ Continue(p, Acquire(p, {"proc", "thread"}),
                          <<"close_proc", "close_thread">>, "w_closew")
              /\ Started(p)
         ELSE /\ Fail(p, Cur(p))
              /\ UNCHANGED <<strategy, allowNetwork, hostBins, tool, ctxCancelled,
                             script, child, out, sr, er, gb, pp, restVars>>

\* _ = windows.CloseHandle(stdoutWrite)
WinCloseWrite(p) ==
    /\ strategy = "windows"
    /\ pc[p] = "w_closew"
    /\ held' = [held EXCEPT ![p] = @ \ {"pipeW"}]
    /\ pc' = [pc EXCEPT ![p] = "w_read"]
    /\ UNCHANGED <<strategy, allowNetwork, hostBins, tool, ctxCancelled, profile, fsFiles,
                   script, defers, child, out, ret, sr, er, gb, pp, restVars>>

\* stdout := readFromPipe(stdoutRead): ReadFile fails once every write end
\* of the pipe is closed, that is once the child is gone.
WinReadPipe(p) ==
    /\ strategy = "windows"
    /\ pc[p] = "w_read"
    /\ child[p].st = "exited"
    /\ pc' = [pc EXCEPT ![p] = "w_wait"]
    /\ UNCHANGED <<strategy, allowNetwork, hostBins, tool, ctxCancelled, profile, fsFiles,
                   script, defers, held, child, out, ret, sr, er, gb, pp, restVars>>

\* The error runWithAppContainer makes of the exit code.
WinExitErr(exitCode) == IF exitCode # 0 THEN Err("exit", exitCode) ELSE NilErr

\* WaitForSingleObject, GetExitCodeProcess, return stdout, err and the
\* deferred calls of runWithAppContainer.
WinWaitReturn(p) ==
    /\ strategy = "windows"
    /\ pc[p] = "w_wait"
    /\ child[p].st = "exited"
    /\ Return(p, out[p], WinExitErr(child[p].code), "w_cb")
    /\ UNCHANGED <<strategy, allowNetwork, hostBins, tool, ctxCancelled,
                   script, child, out, sr, er, gb, pp, restVars>>

\* runWithAppContainer returns while one of its deferred calls fails.
WinWaitReturnCleanup(p) ==
    /\ strategy = "windows"
    /\ pc[p] = "w_wait"
    /\ child[p].st = "exited"
    /\ \E bad \in FrameDefers(defers[p]) :
         ReturnFailing(p, Cur(p), out[p], WinExitErr(child[p].code), "w_cb", bad)
    /\ UNCHANGED <<strategy, allowNetwork, hostBins, tool, ctxCancelled,
                   script, child, out, sr, er, gb, pp, restVars>>

\* The powershell callback returns while both os.Remove(scriptPath) fail.
WinCallbackReturnCleanup(p) ==
    /\ strategy = "windows"
    /\ pc[p] = "w_cb"
    /\ ReturnFailing(p, Cur(p), ret[p].out, ret[p].err, "done", "rm_ps1")
    /\ UNCHANGED <<strategy, allowNetwork, hostBins, tool, ctxCancelled,
                   script, child, out, sr, er, gb, pp, restVars>>

\* Back in the callback: _ = os.Remove(scriptPath); return string(out), err
\* and the deferred os.Remove(scriptPath).
WinCallbackReturn(p) ==
    /\ strategy = "windows"
    /\ pc[p] = "w_cb"
    /\ ReturnFrom(p, ApplyDefer("rm_ps1", Cur(p), p), ret[p].out, ret[p].err, "done")
    /\ UNCHANGED <<strategy, allowNetwork, hostBins, tool, ctxCancelled,
                   script, child, out, sr, er, gb, pp, restVars>>

(***************************************************************************)
(* Windows: the cmd.exe callback and runWithRestrictedAppContainer         *)
(***************************************************************************)
\* windows.OpenProcessToken; defer token.Close()
XOpenToken(p) ==
    strategy = "winexp" /\ SetupStep(p, "x_token", {"token"}, <<"close_token">>, "x_pipe1")

\* stdoutRead, stdoutWrite, err := createPipe() and the two deferred closes
XCreatePipeOut(p) ==
    strategy = "winexp"
    /\ SetupStep(p, "x_pipe1", {"pipeR", "pipeW"}, <<"close_pipeR", "close_pipeW">>, "x_pipe2")

\* stderrRead, stderrWrite, err := createPipe() and the two deferred closes
XCreatePipeErr(p) ==
    strategy = "winexp"
    /\ SetupStep(p, "x_pipe2", {"errR", "errW"}, <<"close_errR", "close_errW">>, "x_restrict")

\* CreateRestrictedToken; defer CloseHandle(restrictedToken)
XRestrictToken(p) ==
    strategy = "winexp"
    /\ SetupStep(p, "x_restrict", {"rtoken"}, <<"close_rtoken">>, "x_create")

\* CreateProcessAsUserW
XCreateProcess(p) ==
    /\ strategy = "winexp"
    /\ pc[p] = "x_create"
    /\ \E ok \in BOOLEAN :
         IF ok
         THEN /\ Continue(p, Acquire(p, {"proc", "thread"}), <<>>, "x_closew")
              /\ Started(p)
         ELSE /\ Fail(p, Cur(p))
              /\ UNCHANGED <<strategy, allowNetwork, hostBins, tool, ctxCancelled,
                             script, child, out, sr, er, gb, pp, restVars>>

\* CloseHandle(stdoutWrite); CloseHandle(stderrWrite)
XCloseWrite(p) ==
    /\ strategy = "winexp"
    /\ pc[p] = "x_closew"
    /\ held' = [held EXCEPT ![p] = @ \ {"pipeW", "errW"}]
    /\ pc' = [pc EXCEPT ![p] = "x_wait"]
    /\ UNCHANGED <<strategy, allowNetwork, hostBins, tool, ctxCancelled, profile, fsFiles,
                   script, defers, child, out, ret, sr, er, gb, pp, restVars>>

\* WaitForSingleObject, both <-outputDone, GetExitCodeProcess, the closes of
\* pi.HProcess and pi.HThread, DeleteAppContainerProfile and
\* return buf.String(), nil.
XWaitReturn(p) ==
    /\ strategy = "winexp"
    /\ pc[p] = "x_wait"
    /\ child[p].st = "exited"
    /\ ReturnFrom(p, [Cur(p) EXCEPT !.held = @ \ {"proc", "thread", "profile"},
                                    !.profile = "none"],
                  out[p], NilErr, "done")
    /\ UNCHANGED <<strategy, allowNetwork, hostBins, tool, ctxCancelled,
                   script, child, out, sr, er, gb, pp, restVars>>

(***************************************************************************)
(* sendRequest                                                             *)
(***************************************************************************)
FileKinds == {"url", "ok", "missing"}

FileLists == UNION {[1..n -> FileKinds] : n \in 0..MaxFiles}

Opt(type, tools, web) == [type |-> type, tools |-> tools, web |-> web]

SrOff ==
    [ pc |-> "off", query |-> FALSE, files |-> <<>>, systemPrompt |-> FALSE,
      useShell |-> FALSE, useWeb |-> FALSE, quiet |-> FALSE,
      msgs |-> <<>>, opts |-> <<>>, useTools |-> FALSE, newErr |-> "none",
      stderr |-> <<>>, gen |-> "none", sent |-> <<>>, rv |-> "none" ]

\* The user message: the query when it is not empty, then one document per
\* file, up to the first file that cannot be opened.
RECURSIVE Requests(_, _)
Requests(files, k) ==
    IF k > Len(files) \/ files[k] = "missing" THEN <<>>
    ELSE <<files[k]>> \o Requests(files, k + 1)

\* sendRequest, "Process inputs": the message, the early returns and the
\* system prompt option.
SrProcessInputs ==
    /\ sr.pc = "inputs"
    /\ LET reqs == (IF sr.query THEN <<"text">> ELSE <<>>) \o Requests(sr.files, 1)
       IN  IF \E k \in 1..Len(sr.files) : sr.files[k] = "missing"
           THEN sr' = [sr EXCEPT !.pc = "returned", !.rv = "open_err"]
           ELSE IF Len(reqs) = 0
           THEN sr' = [sr EXCEPT !.pc = "returned", !.rv = "no_prompt"]
           ELSE sr' = [sr EXCEPT !.pc = "shell", !.msgs = <<reqs>>,
                          !.opts = IF sr.systemPrompt
                                   THEN <<Opt("text", {}, FALSE)>> ELSE <<>>]
    /\ UNCHANGED <<sbVars, er, gb, pp, restVars>>

\* if useShell { if o, err := shelltool.New(false); o != nil {...} else {warning} }
ShellBranch(built, useShell, useWeb, name, q) ==
    IF ~useShell THEN q
    ELSE IF built
    THEN [q EXCEPT !.useTools = TRUE, !.newErr = "nil",
                   !.opts = Append(@, Opt("tools", {name}, useWeb))]
    ELSE [q EXCEPT !.newErr = "err",
                   !.stderr = Append(@, "warning: could not find sandbox")]

SrShellTool ==
    /\ sr.pc = "shell"
    /\ LET built == ToolConstruct(strategy, hostBins)
       IN  /\ sr' = [ShellBranch(built, sr.useShell, sr.useWeb, ToolName(strategy), sr)
                        EXCEPT !.pc = "web"]
           /\ tool' = IF ~sr.useShell THEN tool ELSE IF built THEN "built" ELSE "error"
    /\ UNCHANGED <<strategy, allowNetwork, hostBins, ctxCancelled, profile, fsFiles,
                   pc, script, defers, held, child, out, ret, er, gb, pp, restVars>>

\* The web search option added only next to a shell tool.
WebBranchWithTools(useTools, useWeb, opts) ==
    IF useTools /\ useWeb THEN Append(opts, Opt("tools", {}, TRUE)) ELSE opts

\* if !useTools && useWeb { opts = append(opts, &genai.OptionsTools{WebSearch: true}) }
WebBranch(useTools, useWeb, opts) ==
    IF ~useTools /\ useWeb THEN Append(opts, Opt("tools", {}, TRUE)) ELSE opts

SrWebSearch ==
    /\ sr.pc = "web"
    /\ sr' = [sr EXCEPT !.pc = "exec", !.opts = WebBranch(sr.useTools, sr.useWeb, @)]
    /\ UNCHANGED <<sbVars, er, gb, pp, restVars>>

\* execRequest: the tool-call loop when useTools, a plain stream otherwise.
GenMode(useTools) == IF useTools THEN "loop" ELSE "stream"

\* return execRequest(ctx, c, msgs, opts, useTools, quiet): the request goes
\* out and sendRequest returns what execRequest returns.
SrExecRequest ==
    /\ sr.pc = "exec"
    /\ \E e \in {"nil", "gen_err"} :
         sr' = [sr EXCEPT !.pc = "returned", !.gen = GenMode(sr.useTools),
                          !.sent = <<[msgs |-> sr.msgs, opts |-> sr.opts]>>, !.rv = e]
    /\ UNCHANGED <<sbVars, er, gb, pp, restVars>>

(***************************************************************************)
(* execRequest: printing the reply fragments                               *)
(***************************************************************************)
\* Text is a sequence of characters; "" is <<>>.
LF == "\n"

HasSuffix(str, suffix) ==
    /\ Len(str) >= Len(suffix)
    /\ SubSeq(str, Len(str) - Len(suffix) + 1, Len(str)) = suffix

\* genai.ReplyFragment: a text, a reasoning text or the sources of a citation.
Fragment(text, reasoning, sources) ==
    [TextFragment |-> text, ReasoningFragment |-> reasoning, Citation |-> sources]

Fragments ==
    { Fragment(<<"a">>, <<>>, <<>>),
      Fragment(<<"b", LF>>, <<>>, <<>>),
      Fragment(<<>>, <<"r">>, <<>>),
      Fragment(<<>>, <<"s", LF, LF>>, <<>>),
      Fragment(<<>>, <<>>, <<"CitationWeb">>),
      Fragment(<<>>, <<>>, <<"CitationWebQuery">>),
      Fragment(<<>>, <<>>, <<>>) }

FragmentLists == UNION {[1..n -> Fragments] : n \in 0..MaxFrags}

\* One io.WriteString / fmt.Fprintf to stdout: the statement that wrote and
\* the text written.
Wrote(by, str) == [by |-> by, s |-> str]

\* The blank line written on a change of mode: "\n\n" unless the last
\* fragment already ends with it; nothing at all at the very beginning when
\* the new mode is not "text".
Gap(last, atStart) ==
    IF (atStart \/ last # <<>>) /\ ~HasSuffix(last, <<LF, LF>>)
    THEN (IF ~HasSuffix(last, <<LF>>) THEN <<Wrote("sep", <<LF>>)>> ELSE <<>>)
             \o <<Wrote("sep", <<LF>>)>>
    ELSE <<>>

\* The header written when the mode changes to m.
Header(m) ==
    CASE m = "text" -> Wrote("header", <<"Answer: ">>)
      [] m = "thinking" -> Wrote("header", <<"Reasoning: ">>)
      [] OTHER -> Wrote("header", <<"Citation:", LF>>)

Enter(st, m) ==
    IF st.mode # m THEN Gap(st.last, m = "text") \o <<Header(m)>> ELSE <<>>

\* for _, src := range f.Citation.Sources: one line per web page or image.
RECURSIVE CitationLines(_, _)
CitationLines(sources, k) ==
    IF k > Len(sources) THEN <<>>
    ELSE (CASE sources[k] = "CitationWeb" -> <<Wrote("citation", <<"  - title / url", LF>>)>>
            [] sources[k] = "CitationWebImage" -> <<Wrote("citation", <<"  - Image: url", LF>>)>>
            [] OTHER -> <<>>)
         \o CitationLines(sources, k + 1)

\* A body of the loop that prints reasoning and citations whatever -q says.
PrintFragmentLoud(st, f, quiet) ==
    IF f.TextFragment # <<>>
    THEN [st EXCEPT !.mode = "text", !.last = f.TextFragment,
                    !.w = @ \o Enter(st, "text") \o <<Wrote("text", f.TextFragment)>>]
    ELSE IF f.ReasoningFragment # <<>>
    THEN [st EXCEPT !.mode = "thinking", !.last = f.ReasoningFragment,
                    !.w = @ \o Enter(st, "thinking")
                            \o <<Wrote("reasoning", f.ReasoningFragment)>>]
    ELSE IF f.Citation # <<>>
    THEN [st EXCEPT !.mode = "citation", !.last = <<LF>>,
                    !.w = @ \o Enter(st, "citation") \o CitationLines(f.Citation, 1)]
    ELSE st

\* The body of "for f := range fragments" of execRequest.
PrintFragment(st, f, quiet) ==
    IF f.TextFragment # <<>>
    THEN [st EXCEPT !.mode = "text", !.last = f.TextFragment,
                    !.w = @ \o Enter(st, "text") \o <<Wrote("text", f.TextFragment)>>]
    ELSE IF quiet
    THEN st
    ELSE IF f.ReasoningFragment # <<>>
    THEN [st EXCEPT !.mode = "thinking", !.last = f.ReasoningFragment,
                    !.w = @ \o Enter(st, "thinking")
                            \o <<Wrote("reasoning", f.ReasoningFragment)>>]
    ELSE IF f.Citation # <<>>
    THEN [st EXCEPT !.mode = "citation", !.last = <<LF>>,
                    !.w = @ \o Enter(st, "citation") \o CitationLines(f.Citation, 1)]
    ELSE st

ErOff ==
    [ pc |-> "off", quiet |-> FALSE, fragments |-> <<>>, i |-> 1,
      mode |-> "text", last |-> <<>>, w |-> <<>> ]

\* The stream yields its next fragment and the loop body prints it.
ErFragment ==
    /\ er.pc = "loop"
    /\ er.i <= Len(er.fragments)
    /\ er' = [PrintFragment(er, er.fragments[er.i], er.quiet) EXCEPT !.i = er.i + 1]
    /\ UNCHANGED <<sbVars, sr, gb, pp, restVars>>

\* The stream ends: if !strings.HasSuffix(last, "\n") { io.WriteString(w, "\n") }
ErEndOfStream ==
    /\ er.pc = "loop"
    /\ er.i > Len(er.fragments)
    /\ er' = [er EXCEPT !.pc = "done",
                        !.w = IF ~HasSuffix(er.last, <<LF>>)
                              THEN Append(@, Wrote("end", <<LF>>)) ELSE @]
    /\ UNCHANGED <<sbVars, sr, gb, pp, restVars>>

(***************************************************************************)
(* GetBackend                                                              *)
(***************************************************************************)
\* GetBackend(provider, model, r): the case labels of its switch and the
\* model each one uses when none is given.
DefaultModels ==
    [ anthropic |-> "claude-3-5-haiku-20241022",
      cerebras |-> "llama3.1-8b",
      cloudflare |-> "@cf/qwen/qwen1.5-1.8b-chat",
      cohere |-> "command-r7b-12-2024",
      deepseek |-> "deepseek-chat",
      gemini |-> "gemini-2.0-flash-lite",
      groq |-> "qwen-qwq-32b",
      huggingface |-> "Qwen/Qwen2.5-1.5B-Instruct",
      llamacpp |-> "127.0.0.1:8080",
      mistral |-> "ministral-8b-latest",
      ollama |-> "gemma:4b",
      openai |-> "gpt-4o-mini",
      perplexity |-> "",
      pollinations |-> "openai-fast",
      togetherai |-> "meta-llama/Llama-3.3-70B-Instruct-Turbo" ]

\* getBackend(provider, model, hasContent) of cmd/ask: the same for its switch.
cmdDefaultModels ==
    [ anthropic |-> "claude-3-5-haiku-20241022",
      cohere |-> "command-r7b-12-2024",
      deepseek |-> "deepseek-chat",
      gemini |-> "gemini-2.0-flash-lite",
      groq |-> "qwen-qwq-32b",
      mistral |-> "ministral-8b-latest",
      openai |-> "gpt-4o-mini" ]

\* (provider, error) as returned; provider "nil" is the nil interface,
\* "nil pointer" an interface that holds the nil client of a failed New.
Backend(provider, model, err) == [provider |-> provider, model |-> model, err |-> err]

\* A switch whose default picks gemini instead of failing.
GetBackendOrGemini(provider, model, newOk) ==
    IF provider \in DOMAIN DefaultModels
    THEN LET m == IF provider = "perplexity" THEN "sonar"
                  ELSE IF model = "" THEN DefaultModels[provider] ELSE model
         IN  IF newOk THEN Backend(provider, m, "nil")
             ELSE IF provider \in {"llamacpp", "perplexity"} THEN Backend("nil", "", "new")
             ELSE Backend("nil pointer", "", "new")
    ELSE Backend("gemini", DefaultModels["gemini"], "nil")

\* GetBackend: newOk tells whether the client's New succeeds.
GetBackend(provider, model, newOk) ==
    IF provider \in DOMAIN DefaultModels
    THEN LET m == IF provider = "perplexity" THEN "sonar"
                  ELSE IF model = "" THEN DefaultModels[provider] ELSE model
         IN  IF newOk THEN Backend(provider, m, "nil")
             ELSE IF provider \in {"llamacpp", "perplexity"} THEN Backend("nil", "", "new")
             ELSE Backend("nil pointer", "", "new")
    ELSE Backend("nil", "", "unsupported")

\* getBackend of cmd/ask: the home directory, then the API key from the
\* environment or from a file under ~/bin.
getBackend(provider, model, hasContent, homeOk, envKey, keyFile) ==
    IF ~homeOk THEN Backend("nil", "", "home")
    ELSE IF provider \in DOMAIN cmdDefaultModels
    THEN LET m == IF model # "" THEN model
                  ELSE IF provider = "gemini" /\ hasContent THEN "gemini-1.5-flash-002"
                  ELSE cmdDefaultModels[provider]
         IN  IF ~envKey /\ ~keyFile THEN Backend("nil", "", "key")
             ELSE Backend(provider, m, "nil")
    ELSE Backend("nil", "", "unsupported")

\* Provider names given on the command line: every name some version
\* knows, the name of the tests, the empty name and a name in capitals.
ProviderNames == DOMAIN DefaultModels \cup {"bad", "", "OpenAI"}

GbOff ==
    [ pc |-> "off", version |-> "internal", provider |-> "", model |-> "",
      hasContent |-> FALSE, newOk |-> TRUE, homeOk |-> TRUE, envKey |-> TRUE,
      keyFile |-> TRUE, res |-> Backend("nil", "", "unset") ]

\* The call returns.
GbCall ==
    /\ gb.pc = "call"
    /\ gb' = [gb EXCEPT !.pc = "returned",
                        !.res = IF gb.version = "internal"
                                THEN GetBackend(gb.provider, gb.model, gb.newOk)
                                ELSE getBackend(gb.provider, gb.model, gb.hasContent,
                                                gb.homeOk, gb.envKey, gb.keyFile)]
    /\ UNCHANGED <<sbVars, sr, er, pp, restVars>>

(***************************************************************************)
(* Pipes between the Windows parent and its child                          *)
(***************************************************************************)
\* How runPowerShellScript creates the child.
PsLaunch ==
    [ tokenFlags |-> {},
      restrictSids |-> {},
      attrList |-> {},
      startFlags |-> {"STARTF_USESTDHANDLES"},
      inheritHandles |-> TRUE,
      stdout |-> "pipeW", stderr |-> "errW" ]

PipeImpls == {"runPowerShellScript", "runWithRestrictedAppContainer", "runWithAppContainer"}

PipeLaunch(impl) ==
    CASE impl = "runPowerShellScript" -> PsLaunch
      [] impl = "runWithRestrictedAppContainer" -> WinExpLaunch
      [] OTHER -> WinLaunch

\* The pipes each function creates: runWithAppContainer merges both streams
\* into one.
PipesOf(impl) == IF impl = "runWithAppContainer" THEN {"out"} ELSE {"out", "err"}

PipeOfHandle(h) == IF h = "pipeW" THEN "out" ELSE "err"

\* Where a write of the child to a stream lands: the pipe behind its
\* standard handle, or its own console when no standard handle was passed.
Target(l, stream) ==
    IF WinStdHandlesPassed(l)
    THEN PipeOfHandle(IF stream = "out" THEN l.stdout ELSE l.stderr)
    ELSE "console"

\* CreatePipe with InheritHandle: 1 makes both ends inheritable;
\* SetHandleInformation(r, HANDLE_FLAG_INHERIT, 0) takes the read end back.
SetHandleInformation(inherit, end, flag) == [inherit EXCEPT ![end] = flag]

createPipe == SetHandleInformation([read |-> TRUE, write |-> TRUE], "read", FALSE)

\* The child gets a copy of an end when handles are inherited and the end
\* is inheritable.
ChildHolds(l, end) == IF l.inheritHandles /\ createPipe[end] THEN {"child"} ELSE {}

Chunk(id, stream) == [id |-> id, stream |-> stream, prefix |-> ""]

Programs == UNION {[1..n -> {"out", "err"}] : n \in 0..MaxWrites}

PpOff ==
    [ pc |-> "off", impl |-> "runWithAppContainer", prog |-> <<>>,
      cst |-> "none", cip |-> 1,
      buf |-> [s \in {"out", "err"} |-> <<>>],
      whold |-> [s \in {"out", "err"} |-> {}],
      rhold |-> [s \in {"out", "err"} |-> {}],
      console |-> <<>>,
      rd |-> [s \in {"out", "err"} |-> "off"],
      chan |-> [s \in {"out", "err"} |-> <<>>],
      closed |-> [s \in {"out", "err"} |-> FALSE],
      col |-> [s \in {"out", "err"} |-> "off"],
      outputDone |-> 0,
      eof |-> [s \in {"out", "err"} |-> FALSE],
      got |-> <<>>,
      ret |-> [out |-> <<>>, err |-> "unset"] ]

\* The state after the createPipe calls of the function.
PpStart(impl, prog) ==
    [PpOff EXCEPT !.pc = IF impl = "runWithRestrictedAppContainer"
                         THEN "go_readers" ELSE "create",
                  !.impl = impl, !.prog = prog,
                  !.whold = [s \in {"out", "err"} |->
                                IF s \in PipesOf(impl) THEN {"parent"} ELSE {}],
                  !.rhold = [s \in {"out", "err"} |->
                                IF s \in PipesOf(impl) THEN {"parent"} ELSE {}]]

PpOnly == UNCHANGED <<sbVars, sr, er, gb, restVars>>

\* The deferred CloseHandle calls: the parent lets go of every pipe end.
CloseAll(holders) == [s \in {"out", "err"} |-> holders[s] \ {"parent"}]

\* go readFromPipe(stdoutRead, stdoutChan, "[STDOUT] "); go readFromPipe(stderrRead, ...)
PpStartReaders ==
    /\ pp.pc = "go_readers"
    /\ pp' = [pp EXCEPT !.pc = "create", !.rd = [s \in {"out", "err"} |-> "running"]]
    /\ PpOnly

\* CreateProcess / CreateProcessAsUser: the child starts with its copies of
\* the inheritable handles, or the function returns "", err and its deferred
\* calls close the pipes.
PpCreateProcess ==
    /\ pp.pc = "create"
    /\ \E ok \in BOOLEAN :
         IF ok
         THEN LET l == PipeLaunch(pp.impl)
              IN  pp' = [pp EXCEPT
                     !.pc = "closew", !.cst = "running",
                     !.whold = [s \in {"out", "err"} |->
                                  IF s \in PipesOf(pp.impl)
                                  THEN @[s] \cup ChildHolds(l, "write") ELSE @[s]],
                     !.rhold = [s \in {"out", "err"} |->
                                  IF s \in PipesOf(pp.impl)
                                  THEN @[s] \cup ChildHolds(l, "read") ELSE @[s]]]
         ELSE pp' = [pp EXCEPT !.pc = "returned", !.ret = [out |-> <<>>, err |-> "create"],
                               !.whold = CloseAll(@), !.rhold = CloseAll(@)]
    /\ PpOnly

\* The function goes on without closing its write ends.
PpCloseWriteSkipped ==
    /\ pp.pc = "closew"
    /\ pp' = [pp EXCEPT !.pc = CASE pp.impl = "runWithRestrictedAppContainer" -> "go_collectors"
                                 [] OTHER -> "read_out"]
    /\ PpOnly

\* "Close write handles in parent process to avoid blocking."
PpCloseWrite ==
    /\ pp.pc = "closew"
    /\ pp' = [pp EXCEPT !.pc = CASE pp.impl = "runWithRestrictedAppContainer" -> "go_collectors"
                                 [] OTHER -> "read_out",
                        !.whold = CloseAll(@)]
    /\ PpOnly

\* One ReadFile of the function itself (runPowerShellScript reads stdout to
\* its end, then stderr; readFromPipe of runWithAppContainer reads the one
\* pipe): it takes what the pipe holds, blocks while the pipe is empty and
\* a write end is open, and ends the loop once every write end is closed.
PpReadFile ==
    /\ pp.pc \in {"read_out", "read_err"}
    /\ LET s == IF pp.pc = "read_out" THEN "out" ELSE "err"
       IN  IF pp.buf[s] # <<>>
           THEN pp' = [pp EXCEPT !.got = Append(@, Head(pp.buf[s])), !.buf[s] = Tail(@)]
           ELSE /\ pp.whold[s] = {}
                /\ pp' = [pp EXCEPT
                       !.eof[s] = TRUE,
                       !.pc = IF s = "out" /\ pp.impl = "runPowerShellScript"
                              THEN "read_err" ELSE "wait"]
    /\ PpOnly

\* One turn of the loop of the goroutine readFromPipe: output <- prefix+data,
\* or the end of the loop and the deferred close(output).
PpReader(s) ==
    /\ pp.rd[s] = "running"
    /\ IF pp.buf[s] # <<>> /\ "parent" \in pp.rhold[s]
       THEN /\ Len(pp.chan[s]) < ChanCap
            /\ pp' = [pp EXCEPT
                   !.chan[s] = Append(@, [Head(pp.buf[s]) EXCEPT
                                             !.prefix = IF s = "out" THEN "[STDOUT] "
                                                        ELSE "[STDERR] "]),
                   !.buf[s] = Tail(@)]
       ELSE /\ pp.whold[s] = {} \/ "parent" \notin pp.rhold[s]
            /\ pp' = [pp EXCEPT !.rd[s] = "done", !.closed[s] = TRUE, !.eof[s] = TRUE]
    /\ PpOnly

\* The two goroutines that copy the channels into buf start.
PpStartCollectors ==
    /\ pp.pc = "go_collectors"
    /\ pp' = [pp EXCEPT !.pc = "wait", !.col = [s \in {"out", "err"} |-> "running"]]
    /\ PpOnly

\* for output := range stdoutChan { buf.WriteString(output) }; outputDone <- true
PpCollect(s) ==
    /\ pp.col[s] = "running"
    /\ IF pp.chan[s] # <<>>
       THEN pp' = [pp EXCEPT !.got = Append(@, Head(pp.chan[s])), !.chan[s] = Tail(@)]
       ELSE /\ pp.closed[s]
            /\ pp' = [pp EXCEPT !.col[s] = "done", !.outputDone = @ + 1]
    /\ PpOnly

\* WaitForSingleObject(pi.Process, INFINITE) returns once the child is gone;
\* runPowerShellScript and runWithAppContainer then return what they read.
PpWait ==
    /\ pp.pc = "wait"
    /\ pp.cst = "exited"
    /\ IF pp.impl = "runWithRestrictedAppContainer"
       THEN pp' = [pp EXCEPT !.pc = "join1"]
       ELSE pp' = [pp EXCEPT !.pc = "returned", !.ret = [out |-> pp.got, err |-> "nil"],
                             !.whold = CloseAll(@), !.rhold = CloseAll(@)]
    /\ PpOnly

\* <-outputDone, twice; then return buf.String(), nil.
PpJoin ==
    /\ pp.pc \in {"join1", "join2"}
    /\ pp.outputDone > 0
    /\ IF pp.pc = "join1"
       THEN pp' = [pp EXCEPT !.pc = "join2", !.outputDone = @ - 1]
       ELSE pp' = [pp EXCEPT !.pc = "returned", !.outputDone = @ - 1,
                             !.ret = [out |-> pp.got, err |-> "nil"],
                             !.whold = CloseAll(@), !.rhold = CloseAll(@)]
    /\ PpOnly

\* The child writes its next chunk: into the pipe when it has room, to its
\* console when it has no pipe; a full pipe blocks the write.
PpChildWrite ==
    /\ pp.cst = "running"
    /\ pp.cip <= Len(pp.prog)
    /\ LET t == Target(PipeLaunch(pp.impl), pp.prog[pp.cip])
           c == Chunk(pp.cip, pp.prog[pp.cip])
       IN  IF t = "console"
           THEN pp' = [pp EXCEPT !.console = Append(@, c), !.cip = @ + 1]
           ELSE /\ Len(pp.buf[t]) < PipeCap
                /\ pp' = [pp EXCEPT !.buf[t] = Append(@, c), !.cip = @ + 1]
    /\ PpOnly

\* The child exits: its handles are closed.
PpChildExit ==
    /\ pp.cst = "running"
    /\ pp.cip > Len(pp.prog)
    /\ pp' = [pp EXCEPT !.cst = "exited",
                        !.whold = [s \in {"out", "err"} |-> @[s] \ {"child"}],
                        !.rhold = [s \in {"out", "err"} |-> @[s] \ {"child"}]]
    /\ PpOnly

(***************************************************************************)
(* execRequest: the end of the stream and the documents of the reply       *)
(***************************************************************************)
SvOff == [pc |-> "off"]

\* A path is the sequence of its characters.
\* strconv of a non-negative integer, as fmt's %d prints it.
RECURSIVE Itoa(_)
Itoa(n) ==
    LET d == <<"0", "1", "2", "3", "4", "5", "6", "7", "8", "9">>[(n % 10) + 1]
    IN  IF n < 10 THEN <<d>> ELSE Itoa(n \div 10) \o <<d>>

\* The index of the last "/" of a path, 0 when there is none.
RECURSIVE LastSep(_)
LastSep(path) ==
    IF path = <<>> THEN 0
    ELSE IF path[Len(path)] = "/" THEN Len(path)
    ELSE LastSep(Front(path))

\* filepath.Dir and filepath.Base for the paths of Filenames.
Dir(path) ==
    IF LastSep(path) = 0 THEN <<".">> ELSE SubSeq(path, 1, LastSep(path) - 1)

Base(path) == SubSeq(path, LastSep(path) + 1, Len(path))

\* filepath.Join(dir, name): "." is dropped by Clean.
Join(dir, name) == IF dir = <<".">> THEN name ELSE dir \o <<"/">> \o name

\* filepath.Ext: the suffix from the last dot of the last element on.
RECURSIVE Ext(_)
Ext(base) ==
    IF base = <<>> \/ base[Len(base)] = "/" THEN <<>>
    ELSE IF base[Len(base)] = "." THEN <<".">>
    ELSE IF Ext(Front(base)) = <<>> THEN <<>>
    ELSE Ext(Front(base)) \o <<base[Len(base)]>>

\* os.Stat succeeds: the directory holds a file of that path.
Stat(fs, path) == \E f \in fs : f.path = path

\* The loop of findAvailable from index i on.
RECURSIVE findAvailableFrom(_, _, _, _, _)
findAvailableFrom(fs, dir, name, ext, i) ==
    LET newPath == Join(dir, name \o <<"_">> \o Itoa(i) \o ext)
    IN  IF ~Stat(fs, newPath) THEN newPath
        ELSE findAvailableFrom(fs, dir, name, ext, i + 1)

\* findAvailable that takes the name it is given.
findAvailableSame(fs, filename) == filename

findAvailable(fs, filename) ==
    IF ~Stat(fs, filename) THEN filename
    ELSE LET base == Base(filename)
             ext  == Ext(base)
             name == SubSeq(base, 1, Len(base) - Len(ext))
         IN  findAvailableFrom(fs, Dir(filename), name, ext, 1)

\* os.WriteFile(n, b, 0o644): the file n now holds the bytes of reply by.
WriteFile(fs, n, by) == {f \in fs : f.path # n} \cup {[path |-> n, by |-> by]}

MaxDocs == 2

Filenames ==
    { <<"a", ".", "p">>, <<"a", "_", "1", ".", "p">>, <<"d", "/", "a">> }

\* A reply: text (Doc.IsZero), an inline document or one behind an URL.
Reply(kind, filename) == [kind |-> kind, filename |-> filename]

Replies ==
    {Reply("text", <<>>)}
        \cup {Reply(k, n) : k \in {"inline", "url"}, n \in Filenames}

ReplyLists == UNION {[1..n -> Replies] : n \in 0..MaxDocs}

\* The files of the working directory before the request; by 0 is not a reply.
Directories == SUBSET {[path |-> n, by |-> 0] : n \in Filenames}

\* The stream is over: last was printed, finishTools or finishStream is next.
SvStreamed(fs, replies) ==
    [ pc |-> "finish", fs |-> fs, before |-> fs, replies |-> replies,
      msg |-> <<>>, err |-> "nil", i |-> 1, saves |-> <<>>, ret |-> "none" ]

SvOnly == UNCHANGED <<sbVars, sr, er, gb, pp, environ, bg, ra, mi, gq>>

\* msgs, usage, err = finishTools() / res, err = finishStream(): the final
\* message and the error of the generation; finishTools may return no message.
SvFinish ==
    /\ sv.pc = "finish"
    /\ \E e \in {"nil", "gen"}, tools \in BOOLEAN, empty \in BOOLEAN :
         /\ empty => tools
         /\ sv' = [sv EXCEPT !.pc = "docs", !.err = e,
                             !.msg = IF empty THEN <<>> ELSE sv.replies]
    /\ SvOnly

\* What retrieving the bytes of a reply can end in.
Fetches(r) ==
    IF r.kind = "url" THEN {"nil", "get", "status", "read"} ELSE {"nil", "read"}

\* for _, r := range msg.Replies: one iteration.
SvReply ==
    /\ sv.pc = "docs"
    /\ sv.i <= Len(sv.msg)
    /\ LET r == sv.msg[sv.i]
           n == findAvailable(sv.fs, r.filename)
       IN  IF r.kind = "text"
           THEN sv' = [sv EXCEPT !.i = sv.i + 1]
           ELSE \E fetch \in Fetches(r), write \in {"nil", "write"} :
                  LET e == IF fetch # "nil" THEN fetch ELSE write
                  IN  sv' = [sv EXCEPT
                          !.saves = Append(sv.saves, [i |-> sv.i, path |-> n, err |-> e]),
                          !.fs = IF e = "nil" THEN WriteFile(sv.fs, n, sv.i) ELSE sv.fs,
                          !.i = sv.i + 1,
                          !.pc = IF e = "nil" THEN "docs" ELSE "done",
                          !.ret = IF e = "nil" THEN "none" ELSE e]
    /\ SvOnly

\* A last line that forgets the error of the generation.
SvReturnNil ==
    /\ sv.pc = "docs"
    /\ sv.i > Len(sv.msg)
    /\ sv' = [sv EXCEPT !.pc = "done", !.ret = "nil"]
    /\ SvOnly

\* slog.Info("done", "usage", usage); return err
SvReturn ==
    /\ sv.pc = "docs"
    /\ sv.i > Len(sv.msg)
    /\ sv' = [sv EXCEPT !.pc = "done", !.ret = sv.err]
    /\ SvOnly

(***************************************************************************)
(* cmd/batch: the get command                                              *)
(***************************************************************************)
BgOff == [pc |-> "off"]

MaxPokes == 3

\* What PokeResult hands back: an error, or a result with its finish reason,
\* its text (res.String()) and whether a reply carries a document.
PokeErr == [err |-> "poke", reason |-> "", text |-> "", doc |-> FALSE]

PokeResults ==
    {PokeErr} \cup
        [err : {"nil"}, reason : {"pending", "stop"}, text : {"", "t"}, doc : BOOLEAN]

\* What the command prints for a result: its text when there is one, and a
\* line for each document it writes.
BgLines(res) ==
    (IF res.text # "" THEN <<res.text>> ELSE <<>>)
        \o (IF res.doc THEN <<"- Writing doc">> ELSE <<>>)

\* cmdGet once the provider is built.
BgStart(poll) ==
    [ pc |-> "loop", poll |-> poll, pokes |-> <<>>, stdout |-> <<>>,
      files |-> {}, ret |-> "none" ]

BgOnly == UNCHANGED <<sbVars, sr, er, gb, pp, environ, sv, ra, mi, gq>>

\* The loop body with the test of -poll left out: pending always polls again.
BgPokeAlways ==
    /\ bg.pc = "loop"
    /\ Len(bg.pokes) < MaxPokes
    /\ \E res \in PokeResults, save \in {"nil", "read", "write"} :
         LET pokes == Append(bg.pokes, res)
         IN  IF res.err # "nil"
             THEN bg' = [bg EXCEPT !.pokes = pokes, !.pc = "done", !.ret = res.err]
             ELSE IF res.reason = "pending"
             THEN bg' = [bg EXCEPT !.pokes = pokes]
             ELSE bg' = [bg EXCEPT
                      !.pokes = pokes,
                      !.stdout = bg.stdout \o BgLines(res),
                      !.files = IF res.doc /\ save = "nil" THEN bg.files \cup {Len(pokes)}
                                ELSE bg.files,
                      !.pc = "done",
                      !.ret = IF res.doc THEN save ELSE "nil"]
    /\ BgOnly

\* One turn of the for loop of cmdGet: PokeResult, then return the error,
\* sleep and go round again, or print the result, write its documents and
\* return.
BgPoke ==
    /\ bg.pc = "loop"
    /\ Len(bg.pokes) < MaxPokes
    /\ \E res \in PokeResults, save \in {"nil", "read", "write"} :
         LET pokes == Append(bg.pokes, res)
         IN  IF res.err # "nil"
             THEN bg' = [bg EXCEPT !.pokes = pokes, !.pc = "done", !.ret = res.err]
             ELSE IF bg.poll /\ res.reason = "pending"
             THEN bg' = [bg EXCEPT !.pokes = pokes]
             ELSE bg' = [bg EXCEPT
                      !.pokes = pokes,
                      !.stdout = bg.stdout \o BgLines(res),
                      !.files = IF res.doc /\ save = "nil" THEN bg.files \cup {Len(pokes)}
                                ELSE bg.files,
                      !.pc = "done",
                      !.ret = IF res.doc THEN save ELSE "nil"]
    /\ BgOnly

(***************************************************************************)
(* runAsync                                                                *)
(***************************************************************************)
RaOff == [pc |-> "off"]

MaxChunks == 2

\* unicode.IsSpace for the characters of the streamed texts.
IsSpace(c) == c \in {" ", "\n"}

\* strings.TrimLeftFunc(text, unicode.IsSpace)
RECURSIVE TrimLeft(_)
TrimLeft(text) ==
    IF text # <<>> /\ IsSpace(Head(text)) THEN TrimLeft(Tail(text)) ELSE text

\* strings.ContainsRune(text, '\n')
ContainsLF(text) == \E k \in 1..Len(text) : text[k] = "\n"

\* The stream call of the provider library hands its fragments over with a
\* send on chunks.  The library is not part of the sources: whether its
\* send also waits for ctx.Done() is left open.
Libraries == {"send", "select"}

\* The fragments of runAsync: a text, a file name, and whether
\* pkt.Accumulate(m) fails on it.
RaFragments ==
    [text : {<<>>, <<"a">>, <<"a", "\n">>}, file : {FALSE}, bad : BOOLEAN]
        \cup [text : {<<>>}, file : {TRUE}, bad : BOOLEAN]

RaStreams == UNION {[1..n -> RaFragments] : n \in 0..MaxChunks}

\* runAsync after eg.Go: the goroutine is at its select, ChatStream starts.
RaStart(lib, frags) ==
    [ pc |-> "read", g |-> "select", lib |-> lib, ctx |-> FALSE, frags |-> frags,
      closes |-> 0, m |-> 0, hasLF |-> FALSE, start |-> TRUE, stdout |-> <<>>,
      gerr |-> "nil", err2 |-> "nil", msg |-> -1, ret |-> "none" ]

RaOnly == UNCHANGED <<sbVars, sr, er, gb, pp, environ, sv, bg, mi, gq>>

\* The caller cancels ctx.
RaCancel ==
    /\ ra.pc # "done"
    /\ ~ra.ctx
    /\ ra' = [ra EXCEPT !.ctx = TRUE]
    /\ RaOnly

\* ChatStream reads the response: the next fragment is ready to be sent, or
\* the stream is over, or the request fails and ChatStream returns its error.
RaStreamRead ==
    /\ ra.pc = "read"
    /\ \/ /\ ra.frags # <<>>
          /\ ra' = [ra EXCEPT !.pc = "send"]
       \/ /\ ra.frags = <<>>
          /\ ra' = [ra EXCEPT !.pc = "returned"]
       \/ /\ ra.frags # <<>>
          /\ ra' = [ra EXCEPT !.pc = "returned", !.err2 = "stream"]
    /\ RaOnly

\* A send of the library that waits for ctx.Done() too gives up.
RaStreamGiveUp ==
    /\ ra.pc = "send"
    /\ ra.lib = "select"
    /\ ra.ctx
    /\ ra' = [ra EXCEPT !.pc = "returned", !.err2 = "ctx"]
    /\ RaOnly

\* case pkt, ok := <-chunks with ok: Accumulate, a failure returning err
\* through the deferred function up to its send on ch.
RaReceive ==
    /\ ra.pc = "send"
    /\ ra.g = "select"
    /\ LET pkt  == Head(ra.frags)
           text == IF ra.start THEN TrimLeft(pkt.text) ELSE pkt.text
           lf   == IF text # <<>> THEN ContainsLF(text) ELSE ra.hasLF
           got  == IF text = <<>> /\ pkt.file THEN <<"Got file..", "\n">> ELSE <<>>
       IN  IF pkt.bad
           THEN ra' = [ra EXCEPT !.pc = "read", !.frags = Tail(@), !.g = "defer",
                                 !.gerr = "accumulate",
                                 !.stdout = @ \o (IF ra.hasLF THEN <<>> ELSE <<"\n">>)]
           ELSE ra' = [ra EXCEPT !.pc = "read", !.frags = Tail(@), !.m = @ + 1,
                                 !.start = FALSE, !.hasLF = lf,
                                 !.stdout = @ \o got \o text]
    /\ RaOnly

\* case <-ctx.Done(): return nil, and the deferred function up to ch <- m.
RaCtxDone ==
    /\ ra.g = "select"
    /\ ra.ctx
    /\ ra' = [ra EXCEPT !.g = "defer",
                        !.stdout = @ \o (IF ra.hasLF THEN <<>> ELSE <<"\n">>)]
    /\ RaOnly

\* close(chunks)
RaCloseChunks ==
    /\ ra.pc = "returned"
    /\ ra' = [ra EXCEPT !.pc = "recv", !.closes = @ + 1]
    /\ RaOnly

\* case pkt, ok := <-chunks with !ok: return nil, up to ch <- m.
RaSeeClosed ==
    /\ ra.g = "select"
    /\ ra.closes > 0
    /\ ra' = [ra EXCEPT !.g = "defer",
                        !.stdout = @ \o (IF ra.hasLF THEN <<>> ELSE <<"\n">>)]
    /\ RaOnly

\* ch <- m meets msg := <-ch.
RaHandBack ==
    /\ ra.pc = "recv"
    /\ ra.g = "defer"
    /\ ra' = [ra EXCEPT !.pc = "wait", !.g = "done", !.msg = ra.m]
    /\ RaOnly

\* if err3 := eg.Wait(); err2 == nil { err2 = err3 }; return msg, err2
RaWait ==
    /\ ra.pc = "wait"
    /\ ra.g = "done"
    /\ ra' = [ra EXCEPT !.pc = "done",
                        !.ret = IF ra.err2 = "nil" THEN ra.gerr ELSE ra.err2]
    /\ RaOnly

(***************************************************************************)
(* mainImpl: streaming through the channel chunks                          *)
(***************************************************************************)
MiOff == [pc |-> "off"]

\* The text fragments the stream delivers.
MiFragments ==
    { <<>>, <<"a">>, <<"\n">>, <<"a", "\n">>, <<"a", "\n", "b">> }

MiStreams == UNION {[1..n -> MiFragments] : n \in 0..MaxChunks}

\* mainImpl after the go statement: the printer is at its select and the
\* stream call starts.
MiStart(lib, frags) ==
    [ pc |-> "read", g |-> "select", lib |-> lib, ctx |-> FALSE, frags |-> frags,
      sent |-> <<>>, closes |-> 0, endClosed |-> FALSE, hasLF |-> FALSE,
      start |-> TRUE, stdout |-> <<>>, added |-> FALSE, err |-> "nil",
      ret |-> "none" ]

MiOnly == UNCHANGED <<sbVars, sr, er, gb, pp, environ, sv, bg, ra, gq>>

\* The caller cancels ctx.
MiCancel ==
    /\ mi.pc # "done"
    /\ ~mi.ctx
    /\ mi' = [mi EXCEPT !.ctx = TRUE]
    /\ MiOnly

\* The stream call reads the response: the next fragment is ready to be
\* sent, or the stream is over, or the request fails.
MiStreamRead ==
    /\ mi.pc = "read"
    /\ \/ /\ mi.frags # <<>>
          /\ mi' = [mi EXCEPT !.pc = "send"]
       \/ /\ mi.frags = <<>>
          /\ mi' = [mi EXCEPT !.pc = "returned"]
       \/ /\ mi.frags # <<>>
          /\ mi' = [mi EXCEPT !.pc = "returned", !.err = "stream"]
    /\ MiOnly

\* A send of the library that waits for ctx.Done() too gives up.
MiStreamGiveUp ==
    /\ mi.pc = "send"
    /\ mi.lib = "select"
    /\ mi.ctx
    /\ mi' = [mi EXCEPT !.pc = "returned", !.err = "ctx"]
    /\ MiOnly

\* case pkt, ok := <-chunks with ok: trim the first fragment, note whether
\* the text holds a newline, write it.
MiReceive ==
    /\ mi.pc = "send"
    /\ mi.g = "select"
    /\ LET pkt  == Head(mi.frags)
           text == IF mi.start THEN TrimLeft(pkt) ELSE pkt
       IN  mi' = [mi EXCEPT !.pc = "read", !.frags = Tail(@),
                            !.sent = Append(@, pkt), !.start = FALSE,
                            !.hasLF = IF text # <<>> THEN ContainsLF(text) ELSE @,
                            !.stdout = @ \o text]
    /\ MiOnly

\* end: the newline when hasLF is false, then close(end).
MiEnd ==
    [mi EXCEPT !.g = "done", !.endClosed = TRUE, !.added = ~mi.hasLF,
               !.stdout = @ \o (IF mi.hasLF THEN <<>> ELSE <<"\n">>)]

\* case <-ctx.Done(): goto end
MiCtxDone ==
    /\ mi.g = "select"
    /\ mi.ctx
    /\ mi' = MiEnd
    /\ MiOnly

\* close(chunks)
MiCloseChunks ==
    /\ mi.pc = "returned"
    /\ mi' = [mi EXCEPT !.pc = "end", !.closes = @ + 1]
    /\ MiOnly

\* case pkt, ok := <-chunks with !ok: goto end
MiSeeClosed ==
    /\ mi.g = "select"
    /\ mi.closes > 0
    /\ mi' = MiEnd
    /\ MiOnly

\* <-end; return err
MiReturn ==
    /\ mi.pc = "end"
    /\ mi.endClosed
    /\ mi' = [mi EXCEPT !.pc = "done", !.ret = mi.err]
    /\ MiOnly

(***************************************************************************)
(* gemini: Client.Query                                                    *)
(***************************************************************************)
GqOff == [pc |-> "off"]

MaxParts == 2

MaxCandidates == 2

StatusOK == 200

\* The parts of a candidate's content: their texts.
PartLists == UNION {[1..n -> {"x", "y"}] : n \in 0..MaxParts}

\* What http.DefaultClient.Do and the reading of the body can give: a
\* transport error, or a status with a body that is read or not, decodes
\* into a generateContentResponse or not, and holds candidates.
HttpResponses ==
    [ do : {"nil", "transport"}, status : {StatusOK, 404, 500},
      read : BOOLEAN, decodes : BOOLEAN,
      candidates : UNION {[1..n -> PartLists] : n \in 0..MaxCandidates} ]

\* Client.Query from the answer of the server on: the response, the error,
\* and whether the function panicked instead of returning.
Query(resp) ==
    LET Failed(e) == [response |-> "", err |-> e, panic |-> FALSE]
    IN  IF resp.do # "nil" THEN Failed(resp.do)
        ELSE IF resp.status # StatusOK THEN Failed("status")
        ELSE IF ~resp.read THEN Failed("read")
        ELSE IF ~resp.decodes THEN Failed("decode")
        ELSE IF Len(resp.candidates) # 1 THEN Failed("candidates")
        ELSE LET parts == resp.candidates[1]
             IN  IF Len(parts) - 1 \notin 0..(Len(parts) - 1)
                 THEN [response |-> "", err |-> "nil", panic |-> TRUE]
                 ELSE [response |-> parts[(Len(parts) - 1) + 1], err |-> "nil",
                       panic |-> FALSE]

\* The request is sent; the answer is to come.
GqSent(resp) ==
    [pc |-> "sent", resp |-> resp, res |-> [response |-> "", err |-> "nil", panic |-> FALSE]]

GqOnly == UNCHANGED <<sbVars, sr, er, gb, pp, environ, sv, bg, ra, mi>>

\* Query runs to its end on the answer.
GqQuery ==
    /\ gq.pc = "sent"
    /\ gq' = [gq EXCEPT !.res = Query(gq.resp),
                        !.pc = IF Query(gq.resp).panic THEN "panic" ELSE "returned"]
    /\ GqOnly

(***************************************************************************)
(* Specifications                                                          *)
(***************************************************************************)
\* No later part of the program is running.
RestOff ==
    /\ sv = SvOff
    /\ bg = BgOff
    /\ ra = RaOff
    /\ mi = MiOff
    /\ gq = GqOff

NoScript == Script("none", <<>>, 0, FALSE)

\* os.Environ() of the parent: with and without a locale of its own.
Environs ==
    { <<<<"PATH", "/usr/bin">>>>,
      <<<<"LANG", "fr_FR.UTF-8">>, <<"PATH", "/usr/bin">>>> }

Idle ==
    /\ tool = "unbuilt"
    /\ ctxCancelled = FALSE
    /\ fsFiles = {}
    /\ pc = [p \in Procs |-> "idle"]
    /\ script = [p \in Procs |-> NoScript]
    /\ defers = [p \in Procs |-> <<>>]
    /\ held = [p \in Procs |-> {}]
    /\ child = [p \in Procs |-> NoChild]
    /\ out = [p \in Procs |-> <<>>]
    /\ ret = [p \in Procs |-> NoRet]

\* One tool call on any host.
Init ==
    /\ strategy \in Strategies
    /\ allowNetwork \in BOOLEAN
    /\ hostBins \in SUBSET Binaries
    /\ profile \in {"none", "stale"}
    /\ Idle
    /\ sr = SrOff
    /\ er = ErOff
    /\ gb = GbOff
    /\ pp = PpOff
    /\ environ \in Environs
    /\ RestOff

Solo == {"a"}

Next ==
    \/ Construct
    \/ CancelCtx
    \/ \E p \in Solo :
         \/ Invoke(p)
         \/ ChildStep(p)
         \/ ChildExit(p)
         \/ DarwinWriteProfile(p)
         \/ DarwinWriteScript(p)
         \/ ExecStart(p)
         \/ Kill(p)
         \/ ExecReturn(p)
         \/ CreateContainer(p)
         \/ CreateContainerRetry(p)
         \/ WinWriteScript(p)
         \/ WinOpenToken(p)
         \/ WinRestrictToken(p)
         \/ WinCapabilitySIDs(p)
         \/ WinDeriveSid(p)
         \/ WinSetupAttributes(p)
         \/ WinCreatePipe(p)
         \/ WinCreateProcess(p)
         \/ WinCloseWrite(p)
         \/ WinReadPipe(p)
         \/ WinWaitReturn(p)
         \/ WinCallbackReturn(p)
         \/ XOpenToken(p)
         \/ XCreatePipeOut(p)
         \/ XCreatePipeErr(p)
         \/ XRestrictToken(p)
         \/ XCreateProcess(p)
         \/ XCloseWrite(p)
         \/ XWaitReturn(p)

Spec == Init /\ [][Next]_vars

\* The scheduler runs every goroutine and process that can take a step.
FairSpec == Init /\ [][Next]_vars /\ WF_vars(Next)

\* Two tool calls at the same time on Windows.
ConcInit ==
    /\ strategy \in {"windows", "winexp"}
    /\ allowNetwork = FALSE
    /\ hostBins = {}
    /\ profile \in {"none", "stale"}
    /\ Idle
    /\ sr = SrOff
    /\ er = ErOff
    /\ gb = GbOff
    /\ pp = PpOff
    /\ environ = <<>>
    /\ RestOff

ConcNext ==
    \/ Construct
    \/ CancelCtx
    \/ \E p \in Procs :
         \/ Invoke(p)
         \/ ChildStep(p)
         \/ ChildExit(p)
         \/ CreateContainer(p)
         \/ CreateContainerRetry(p)
         \/ WinWriteScript(p)
         \/ WinOpenToken(p)
         \/ WinRestrictToken(p)
         \/ WinCapabilitySIDs(p)
         \/ WinDeriveSid(p)
         \/ WinSetupAttributes(p)
         \/ WinCreatePipe(p)
         \/ WinCreateProcess(p)
         \/ WinCloseWrite(p)
         \/ WinReadPipe(p)
         \/ WinWaitReturn(p)
         \/ WinCallbackReturn(p)
         \/ XOpenToken(p)
         \/ XCreatePipeOut(p)
         \/ XCreatePipeErr(p)
         \/ XRestrictToken(p)
         \/ XCreateProcess(p)
         \/ XCloseWrite(p)
         \/ XWaitReturn(p)

ConcSpec == ConcInit /\ [][ConcNext]_vars

\* sendRequest on any host and for any command line.
SendInit ==
    /\ strategy \in Strategies
    /\ allowNetwork = FALSE
    /\ hostBins \in SUBSET Binaries
    /\ profile = "none"
    /\ Idle
    /\ \E q \in BOOLEAN, fl \in FileLists, sp \in BOOLEAN,
          us \in BOOLEAN, uw \in BOOLEAN, qt \in BOOLEAN :
         sr = [SrOff EXCEPT !.pc = "inputs", !.query = q, !.files = fl,
                            !.systemPrompt = sp, !.useShell = us, !.useWeb = uw,
                            !.quiet = qt]
    /\ er = ErOff
    /\ gb = GbOff
    /\ pp = PpOff
    /\ environ = <<>>
    /\ RestOff

SendNext ==
    \/ SrProcessInputs
    \/ SrShellTool
    \/ SrWebSearch
    \/ SrExecRequest

SendSpec == SendInit /\ [][SendNext]_vars

\* Nothing of the shell tool is in use.
NoTool ==
    /\ strategy = "linux"
    /\ environ = <<>>
    /\ allowNetwork = FALSE
    /\ hostBins = {}
    /\ profile = "none"
    /\ Idle
    /\ sr = SrOff

\* execRequest printing any stream of fragments, with and without -q.
ErInit ==
    /\ NoTool
    /\ \E qt \in BOOLEAN, fl \in FragmentLists :
         er = [ErOff EXCEPT !.pc = "loop", !.quiet = qt, !.fragments = fl]
    /\ gb = GbOff
    /\ pp = PpOff
    /\ RestOff

ErNext ==
    \/ ErFragment
    \/ ErEndOfStream

ErSpec == ErInit /\ [][ErNext]_vars

\* One call of GetBackend or getBackend with any arguments, on any host.
GbInit ==
    /\ NoTool
    /\ er = ErOff
    /\ pp = PpOff
    /\ RestOff
    /\ \/ \E n \in ProviderNames, m \in {"", "m"}, ok \in BOOLEAN :
            gb = [GbOff EXCEPT !.pc = "call", !.version = "internal", !.provider = n,
                               !.model = m, !.newOk = ok]
       \/ \E n \in ProviderNames, m \in {"", "m"}, hc \in BOOLEAN,
             h \in BOOLEAN, e \in BOOLEAN, f \in BOOLEAN :
            gb = [GbOff EXCEPT !.pc = "call", !.version = "cmd", !.provider = n,
                               !.model = m, !.hasContent = hc, !.homeOk = h,
                               !.envKey = e, !.keyFile = f]

GbNext == GbCall

GbSpec == GbInit /\ [][GbNext]_vars

\* One run of a Windows run function with a child that writes any short
\* sequence of chunks to its two streams.
PpInit ==
    /\ NoTool
    /\ er = ErOff
    /\ gb = GbOff
    /\ \E impl \in PipeImpls, prog \in Programs : pp = PpStart(impl, prog)
    /\ RestOff

PpNext ==
    \/ PpStartReaders
    \/ PpCreateProcess
    \/ PpCloseWrite
    \/ PpReadFile
    \/ \E s \in {"out", "err"} : PpReader(s)
    \/ PpStartCollectors
    \/ \E s \in {"out", "err"} : PpCollect(s)
    \/ PpWait
    \/ PpJoin
    \/ PpChildWrite
    \/ PpChildExit

PpSpec == PpInit /\ [][PpNext]_vars

\* Every goroutine and the child run when they can.
FairPpSpec == PpInit /\ [][PpNext]_vars /\ WF_vars(PpNext)

\* Neither the tool nor any other part of the program but one is at work.
Apart ==
    /\ NoTool
    /\ er = ErOff
    /\ gb = GbOff
    /\ pp = PpOff

\* execRequest after the stream: the documents of the final message.
SvInit ==
    /\ Apart
    /\ \E fs \in Directories, replies \in ReplyLists : sv = SvStreamed(fs, replies)
    /\ bg = BgOff
    /\ ra = RaOff
    /\ mi = MiOff
    /\ gq = GqOff

SvNext ==
    \/ SvFinish
    \/ SvReply
    \/ SvReturn

SvSpec == SvInit /\ [][SvNext]_vars

\* The get command of cmd/batch, with and without -poll.
BgInit ==
    /\ Apart
    /\ \E poll \in BOOLEAN : bg = BgStart(poll)
    /\ sv = SvOff
    /\ ra = RaOff
    /\ mi = MiOff
    /\ gq = GqOff

BgNext == BgPoke

BgSpec == BgInit /\ [][BgNext]_vars

\* runAsync: the stream call, the goroutine and the caller's cancellation.
RaInit ==
    /\ Apart
    /\ \E lib \in Libraries, frags \in RaStreams : ra = RaStart(lib, frags)
    /\ sv = SvOff
    /\ bg = BgOff
    /\ mi = MiOff
    /\ gq = GqOff

\* The steps of runAsync and of its goroutine.
RaRun ==
    \/ RaStreamRead
    \/ RaStreamGiveUp
    \/ RaReceive
    \/ RaCtxDone
    \/ RaCloseChunks
    \/ RaSeeClosed
    \/ RaHandBack
    \/ RaWait

RaNext ==
    \/ RaCancel
    \/ RaRun

RaSpec == RaInit /\ [][RaNext]_vars

\* The goroutines run when they can; the caller need not cancel.
FairRaSpec == RaInit /\ [][RaNext]_vars /\ WF_vars(RaRun)

\* mainImpl: the stream call, the printer and the caller's cancellation.
MiInit ==
    /\ Apart
    /\ \E lib \in Libraries, frags \in MiStreams : mi = MiStart(lib, frags)
    /\ sv = SvOff
    /\ bg = BgOff
    /\ ra = RaOff
    /\ gq = GqOff

\* The steps of mainImpl and of its printer.
MiRun ==
    \/ MiStreamRead
    \/ MiStreamGiveUp
    \/ MiReceive
    \/ MiCtxDone
    \/ MiCloseChunks
    \/ MiSeeClosed
    \/ MiReturn

MiNext ==
    \/ MiCancel
    \/ MiRun

MiSpec == MiInit /\ [][MiNext]_vars

\* The goroutines run when they can; the caller need not cancel.
FairMiSpec == MiInit /\ [][MiNext]_vars /\ WF_vars(MiRun)

\* gemini: one Query for each answer of the server.
GqInit ==
    /\ Apart
    /\ \E resp \in HttpResponses : gq = GqSent(resp)
    /\ sv = SvOff
    /\ bg = BgOff
    /\ ra = RaOff
    /\ mi = MiOff

GqNext == GqQuery

GqSpec == GqInit /\ [][GqNext]_vars

\* One tool call on any host, with cleanup steps that may fail.
CleanNext ==
    \/ Next
    \/ \E p \in Solo :
         \/ ExecReturnCleanup(p)
         \/ WinWaitReturnCleanup(p)
         \/ WinCallbackReturnCleanup(p)

CleanSpec == Init /\ [][CleanNext]_vars

(***************************************************************************)
(* Properties                                                              *)
(***************************************************************************)
Done(p) == pc[p] = "done"

\* C1: on every platform the child can write no path outside the scratch
\* directory, and a write inside the scratch directory succeeds.
C1_WritesConfined ==
    \A p \in Procs :
        /\ \A path \in child[p].wrote : InScratch(strategy, path)
        /\ \A path \in child[p].denied : ~InScratch(strategy, path)

\* C2: a tool built with allowNetwork=false gives the child no outbound
\* network access: the HTTP request fails, and the callback returns an error
\* or a text without an IPv4 address.
C2_NoNetwork ==
    ~allowNetwork =>
        \A p \in Procs :
            /\ child[p].net # "ok"
            /\ Done(p) /\ script[p].name = "curl" =>
                   ret[p].err # NilErr \/ ~MatchesIPv4(ret[p].out)

\* The script of the call ran to its end and exited with code 0.
RanClean(p) ==
    /\ child[p].st = "exited"
    /\ child[p].ip > Len(script[p].ops)
    /\ child[p].code = 0

\* C3: when the script wrote one line to stdout and one to stderr and exited 0,
\* the callback returns no error and a text that contains both lines.
C3_BothStreams ==
    \A p \in Procs :
        Done(p) /\ script[p].name = "echo" /\ RanClean(p) =>
            /\ ret[p].err = NilErr
            /\ ContainsLine(ret[p].out, LineHi)
            /\ ContainsLine(ret[p].out, LineHello)

\* C4: when the child was created and exited with a non-zero code, the call
\* returns the collected output and an error that carries the exit code.
C4_NonZeroExit ==
    \A p \in Procs :
        Done(p) /\ child[p].st = "exited" /\ child[p].code # 0 =>
            /\ ret[p].err = Err("exit", child[p].code)
            /\ ret[p].out = out[p]

\* C5: once the callback has returned, none of the temporary files it
\* created exists.
C5_NoTempFiles ==
    \A p \in Procs : Done(p) => \A f \in fsFiles : f.owner # p

\* C6: on Windows, once the run function has returned, the invocation holds
\* none of the resources it acquired.
C6_WinReleased ==
    IsWindows(strategy) =>
        \A p \in Procs : pc[p] \in {"w_cb", "done"} => held[p] = {}

\* C7: when the context is cancelled while the child runs, the child ends,
\* the callback returns and every resource and temporary file is released.
C7_CancelTerminates ==
    \A p \in Procs :
        (ctxCancelled /\ child[p].st = "running")
            ~> (/\ Done(p)
                /\ child[p].st # "running"
                /\ held[p] = {}
                /\ \A f \in fsFiles : f.owner # p)

\* C8: no step of one invocation destroys or replaces the AppContainer
\* profile that another invocation created and still uses.
C8_NoSharedState ==
    \A p \in Procs : "profile" \in held[p] => profile = p

\* C9: a tool is built only on a host that has the executables its callback
\* runs, and no call fails because such an executable is missing.
C9_MissingBinary ==
    /\ tool = "built" => ExecBins(strategy) \subseteq hostBins
    /\ \A p \in Procs :
           Done(p) => /\ ret[p].err.kind # "notfound"
                      /\ ~ContainsLine(ret[p].out, LineNoInterp)

\* The shell tool was requested and its construction failed.
ShellFailed == sr.useShell /\ sr.newErr = "err"

\* C10: when the shell tool is requested and cannot be built, sendRequest
\* warns on stderr and still sends the request as a plain stream: it
\* returns what execRequest returns, advertises no shell tool and keeps a
\* requested web search.
C10_WarnAndProceed ==
    sr.pc = "returned" /\ ShellFailed =>
        /\ Len(sr.stderr) = 1
        /\ sr.rv \in {"nil", "gen_err"}
        /\ sr.gen = "stream"
        /\ Len(sr.sent) = 1
        /\ \A k \in 1..Len(sr.sent[1].opts) : sr.sent[1].opts[k].tools = {}
        /\ sr.useWeb => \E k \in 1..Len(sr.sent[1].opts) : sr.sent[1].opts[k].web

\* C10 witness: a request with -shell and -web was sent although the shell
\* tool could not be built.
C10_Witness ==
    /\ sr.pc = "returned"
    /\ ShellFailed
    /\ sr.useWeb
    /\ sr.gen = "stream"

\* The invocation ended without a child: a temporary file, the token, the
\* profile, a pipe or the process itself could not be created.
SetupFailed(p) == Done(p) /\ child[p].st \in {"none", "nostart_ctx", "nostart_missing"}

\* C11: when a setup step fails (temporary file, token, AppContainer
\* profile, pipe, process creation), the callback returns a non-nil error
\* and an empty output.
C11_SetupFailureEmpty ==
    \A p \in Procs : SetupFailed(p) => ret[p].err # NilErr /\ ret[p].out = <<>>

C11_Witness ==
    \E p \in Procs : SetupFailed(p) /\ ret[p].err.kind = "setup" /\ ret[p].out = <<>>

\* getShellTool(allowNetwork) on macOS: the profile the child runs under,
\* the one without the network clause when network access is asked for.
NetworkProfile(allow) == IF allow THEN sb2 ELSE sb

IsNetworkDeny(r) == r.act = "deny" /\ r.op = "network*"

WithoutNetworkDeny(rules) == SelectSeq(rules, LAMBDA r : ~IsNetworkDeny(r))

\* C12: a tool built with allowNetwork=true, on a platform whose policy
\* depends on the flag, runs the child under a policy that permits outbound
\* network access, so that the HTTP request returns a text with an IPv4
\* address; that policy is the allowNetwork=false policy without its
\* network-deny clause.
C12_NetworkAllowed ==
    /\ NetworkProfile(TRUE) = WithoutNetworkDeny(NetworkProfile(FALSE))
    /\ NetworkProfile(TRUE) # NetworkProfile(FALSE)
    /\ allowNetwork /\ IsDarwin(strategy) /\ ProfileOf(strategy) = NetworkProfile(allowNetwork) =>
           \A p \in Procs :
               /\ Done(p)
               /\ script[p].name = "curl"
               /\ child[p].st = "exited"
               /\ child[p].ip > Len(script[p].ops)
               => MatchesIPv4(ret[p].out)

\* The texts written by the statement "by", in order.
RECURSIVE WrittenBy(_, _)
WrittenBy(w, by) ==
    IF w = <<>> THEN <<>>
    ELSE (IF w[1].by = by THEN <<w[1].s>> ELSE <<>>) \o WrittenBy(Tail(w), by)

\* The non-empty texts of the first n fragments, in order.
RECURSIVE TextsOf(_, _)
TextsOf(fl, n) ==
    IF n = 0 THEN <<>>
    ELSE TextsOf(fl, n - 1)
             \o (IF fl[n].TextFragment # <<>> THEN <<fl[n].TextFragment>> ELSE <<>>)

\* C13: with -q, execRequest writes nothing for reasoning and citation
\* fragments, neither their content nor the "Reasoning: " and "Citation:"
\* headers; the text fragments are written as they are without -q, each one
\* whole and in order.
C13_QuietSilencesThinking ==
    /\ WrittenBy(er.w, "text") = TextsOf(er.fragments, er.i - 1)
    /\ er.quiet =>
          \A k \in 1..Len(er.w) :
              /\ er.w[k].by \in {"text", "end"}
              /\ er.w[k] \notin {Header("thinking"), Header("citation")}

C13_Witness ==
    /\ er.pc = "done"
    /\ er.quiet
    /\ \E j, k, l \in 1..Len(er.fragments) :
          /\ er.fragments[j].ReasoningFragment # <<>>
          /\ er.fragments[k].Citation # <<>>
          /\ er.fragments[l].TextFragment # <<>>
          /\ j < l
    /\ Len(er.w) > 0

\* The backends each version supports.
SupportedBackends(version) ==
    IF version = "internal"
    THEN { "anthropic", "cerebras", "cloudflare", "cohere", "deepseek", "gemini", "groq",
           "huggingface", "llamacpp", "mistral", "ollama", "openai", "perplexity",
           "pollinations", "togetherai" }
    ELSE {"anthropic", "cohere", "deepseek", "gemini", "groq", "mistral", "openai"}

\* C14: for a provider name that is not a supported backend, GetBackend
\* returns a non-nil error and no provider, whatever the other arguments.
C14_UnknownBackend ==
    gb.pc = "returned" /\ gb.provider \notin SupportedBackends(gb.version) =>
        gb.res.err # "nil" /\ gb.res.provider = "nil"

C14_Witness ==
    /\ gb.pc = "returned"
    /\ gb.provider = "bad"
    /\ gb.version = "internal"
    /\ gb.model = "m"
    /\ gb.res.err = "unsupported"

\* The parent waits in ReadFile on the empty stdout pipe, whose write end the
\* child holds, and the child waits in a write to the full stderr pipe.
PipeDeadlock ==
    /\ pp.pc = "read_out"
    /\ pp.buf["out"] = <<>>
    /\ pp.whold["out"] # {}
    /\ pp.cst = "running"
    /\ pp.cip <= Len(pp.prog)
    /\ Target(PipeLaunch(pp.impl), pp.prog[pp.cip]) = "err"
    /\ Len(pp.buf["err"]) >= PipeCap

\* C15: the invocation ends for every child that ends by itself, whatever
\* it writes and in which order: the parent is never stuck reading stdout
\* while the child is stuck writing to the full stderr pipe.
C15_NoPipeDeadlock == ~PipeDeadlock

\* C16: the parent returns the merged output only after every pipe reader
\* has reached the end of its pipe and the wait for the child is over: no
\* reader still runs, and every chunk the child wrote to stdout or stderr
\* is in the returned text.
C16_AllOutputReturned ==
    pp.pc = "returned" /\ pp.ret.err = "nil" =>
        /\ pp.cst = "exited"
        /\ \A s \in PipesOf(pp.impl) : pp.eof[s] /\ pp.rd[s] # "running"
        /\ \A k \in 1..Len(pp.prog) :
               \E j \in 1..Len(pp.ret.out) : pp.ret.out[j].id = k

\* The parent waits for the end of the output or of the child.
ParentAwaitsOutput == pp.pc \in {"read_out", "read_err", "wait", "join1", "join2"}

\* C18: the read ends of the pipes are not inherited by the child, the
\* parent has closed its write ends (after the process creation) whenever it
\* waits for the end of the output, and once the child has exited every
\* pipe reader eventually sees the end of its pipe.
C18_ReadersSeeEOF ==
    /\ [](\A s \in {"out", "err"} : "child" \notin pp.rhold[s])
    /\ [](ParentAwaitsOutput => \A s \in {"out", "err"} : "parent" \notin pp.whold[s])
    /\ (pp.cst = "exited") ~> (\A s \in PipesOf(pp.impl) : pp.eof[s])

C18_Witness ==
    /\ pp.cst = "exited"
    /\ pp.pc = "wait"
    /\ \A s \in PipesOf(pp.impl) : pp.eof[s]
    /\ pp.got # <<>>

\* C17: when the Windows child is created, the attribute list given to the
\* process creation holds the security-capabilities attribute with the
\* AppContainer SID.
C17_SecurityCapabilitiesAttached ==
    \A p \in Procs :
        strategy = "windows" /\ child[p].st # "none" =>
            \E a \in LaunchOf(strategy).attrList :
                a.attr = "SECURITY_CAPABILITIES" /\ a.val.sid = "ReadOnlyAppContainer"

\* Invocation p is at the first CreateAppContainerProfile of createContainer.
AtCreateContainer(p) ==
    \/ strategy = "windows" /\ pc[p] = "w_container"
    \/ strategy = "winexp" /\ pc[p] = "start"

\* C19: createContainer deletes and creates again a profile that exists and
\* succeeds when the second creation does; it returns an error only when
\* the first creation fails although no profile exists, or when the second
\* creation fails.
C19_ContainerRecreated ==
    [][\A p \in Procs :
          LET created == /\ pc'[p] = (IF strategy = "windows" THEN "w_sid" ELSE "x_token")
                         /\ profile' = p
                         /\ "profile" \in held'[p]
              failed == /\ pc'[p] = AfterRun(strategy)
                        /\ ret'[p] = [out |-> <<>>, err |-> Err("setup", 0)]
                        /\ profile' # p
          IN  /\ AtCreateContainer(p) /\ profile # "none" /\ pc'[p] # pc[p] =>
                     pc'[p] = "container_retry" /\ ret'[p] = ret[p]
              /\ AtCreateContainer(p) /\ profile = "none" /\ pc'[p] # pc[p] =>
                     created \/ failed
              /\ pc[p] = "container_retry" /\ pc'[p] # pc[p] =>
                     created \/ failed
      ]_vars

\* One invocation took over the profile the other one had created.
C19_Witness ==
    \E p, q \in Procs :
        /\ p # q
        /\ profile = p
        /\ "profile" \in held[p]
        /\ "profile" \in held[q]
        /\ pc[p] \in {"w_sid", "x_token"}

\* The child of invocation p was started.
ChildStarted(p) == child[p].st \notin {"none", "nostart_ctx", "nostart_missing"}

\* C20: the Linux callback starts bwrap with the fixed arguments --ro-bind
\* / /, --tmpfs /tmp, --dev /dev, --proc /proc, --, bash, -c, followed by the
\* script as one last argument, and creates no temporary file.
C20_BwrapArgv ==
    \A p \in Procs :
        strategy = "linux" =>
            /\ fsFiles = {}
            /\ ChildStarted(p) =>
                   child[p].argv = << "bwrap", "--ro-bind", "/", "/", "--tmpfs", "/tmp",
                                      "--dev", "/dev", "--proc", "/proc", "--", "bash", "-c",
                                      script[p].name >>

C20_Witness ==
    \E p \in Procs :
        /\ strategy = "linux"
        /\ Done(p)
        /\ child[p].st = "exited"
        /\ script[p].name = "--bind / /"
        /\ child[p].argv[Len(child[p].argv)] = "--bind / /"
        /\ fsFiles = {}

\* The value of a variable in an environment block, "" when it is not set.
Getenv(env, name) ==
    IF \E k \in 1..Len(env) : env[k][1] = name
    THEN env[CHOOSE k \in 1..Len(env) : env[k][1] = name /\ \A j \in 1..(k - 1) : env[j][1] # name][2]
    ELSE ""

EnvNames(env) == {env[k][1] : k \in 1..Len(env)}

\* C21: on every platform the child's environment is the parent's with
\* LANG forced to C: every other variable of the parent is passed unchanged
\* and LANG=C is in effect in the child.
C21_ChildLocale ==
    \A p \in Procs :
        ChildStarted(p) =>
            /\ Getenv(child[p].env, "LANG") = "C"
            /\ EnvNames(child[p].env) = EnvNames(environ) \cup {"LANG"}
            /\ \A n \in EnvNames(environ) \ {"LANG"} :
                   Getenv(child[p].env, n) = Getenv(environ, n)

\* The records the callback writes to the log: slog.DebugContext(ctx, "bash",
\* "command", script, "output", out, "err", err), once, before it returns.
SlogRecords(p) ==
    IF Done(p) /\ ChildStarted(p)
    THEN {[msg |-> "bash", command |-> script[p].name, output |-> ret[p].out, err |-> ret[p].err]}
    ELSE {}

\* The callback returned after the child ran, and something it had to
\* release on its way out is still there: a cleanup step failed.
CleanupFailed(p) ==
    /\ strategy \in {"darwin", "darwin2", "windows"}
    /\ Done(p)
    /\ child[p].st = "exited"
    /\ held[p] # {} \/ \E f \in fsFiles : f.owner = p

\* The (output, error) pair the execution itself determines.
RunPair(p) ==
    [ out |-> out[p],
      err |-> IF strategy = "windows" THEN WinExitErr(child[p].code) ELSE ExecErr(child[p]) ]

\* C22 as stated: a failed cleanup step (temporary file, handle, profile)
\* is logged and leaves the returned (output, error) pair the one the
\* execution determined.
C22_CleanupLogged ==
    \A p \in Procs :
        CleanupFailed(p) =>
            /\ ret[p] = RunPair(p)
            /\ \E r \in SlogRecords(p) : r.err.kind = "cleanup"

\* C22 amended: a failed cleanup step is dropped without a log record and
\* leaves the returned (output, error) pair the one the execution determined.
C22_CleanupDropped ==
    \A p \in Procs :
        CleanupFailed(p) =>
            /\ ret[p] = RunPair(p)
            /\ \A r \in SlogRecords(p) : r.err = RunPair(p).err

C22_Witness ==
    \E p \in Procs :
        /\ CleanupFailed(p)
        /\ child[p].code # 0
        /\ File(p, IF strategy = "windows" THEN "ps1" ELSE "sh") \in fsFiles
        /\ ret[p].err = Err("exit", child[p].code)

\* The replies of the final message that carry a document.
DocsOf(msg) == {i \in 1..Len(msg) : msg[i].kind # "text"}

\* The saves that went through.
Saved == {k \in 1..Len(sv.saves) : sv.saves[k].err = "nil"}

\* C23: when the generation ends in an error and the final message has
\* documents, every document is saved and the generation error is returned,
\* unless saving one fails: then that error is returned and no later
\* document is saved.
C23_DocumentsSavedOnError ==
    (sv.pc = "done" /\ sv.err = "gen" /\ DocsOf(sv.msg) # {}) =>
        IF \A k \in 1..Len(sv.saves) : sv.saves[k].err = "nil"
        THEN /\ sv.ret = "gen"
             /\ {sv.saves[k].i : k \in Saved} = DocsOf(sv.msg)
             /\ \A i \in DocsOf(sv.msg) : \E f \in sv.fs : f.by = i
        ELSE LET k == Len(sv.saves)
             IN  /\ sv.saves[k].err # "nil"
                 /\ sv.ret = sv.saves[k].err
                 /\ \A j \in 1..(k - 1) : sv.saves[j].err = "nil"
                 /\ \A i \in DocsOf(sv.msg) :
                        (\E f \in sv.fs : f.by = i) <=> i < sv.saves[k].i

C23_Witness ==
    /\ sv.pc = "done"
    /\ sv.err = "gen"
    /\ Cardinality(DocsOf(sv.msg)) = 2
    /\ Cardinality(Saved) = 2
    /\ sv.ret = "gen"

\* The failing half of C23: the first of two documents is not saved.
C23_WitnessSaveError ==
    /\ sv.pc = "done"
    /\ sv.err = "gen"
    /\ Cardinality(DocsOf(sv.msg)) = 2
    /\ Len(sv.saves) = 1
    /\ sv.ret = "status"

\* The path findAvailable is to return by its contract: filename when free,
\* else the first free path of name_1.ext, name_2.ext, ...
Numbered(filename, i) ==
    LET base == Base(filename)
        dot  == CHOOSE k \in 0..Len(base) :
                    /\ k = 0 \/ base[k] = "."
                    /\ \A j \in (k + 1)..Len(base) : base[j] # "."
        stem == IF dot = 0 THEN base ELSE SubSeq(base, 1, dot - 1)
        tail == IF dot = 0 THEN <<>> ELSE SubSeq(base, dot, Len(base))
        file == stem \o <<"_">> \o Itoa(i) \o tail
    IN  IF LastSep(filename) = 0 THEN file
        ELSE SubSeq(filename, 1, LastSep(filename)) \o file

\* C24: findAvailable returns the name itself when it is free and else the
\* numbered name of the smallest free index; the documents of one reply go
\* to pairwise distinct paths and no file of before is overwritten.
C24_FindAvailable ==
    /\ \A n \in Filenames :
          LET got == findAvailable(sv.fs, n)
          IN  /\ ~Stat(sv.fs, got)
              /\ ~Stat(sv.fs, n) => got = n
              /\ Stat(sv.fs, n) =>
                    \E i \in 1..(Cardinality(sv.fs) + 1) :
                        /\ got = Numbered(n, i)
                        /\ \A j \in 1..(i - 1) : Stat(sv.fs, Numbered(n, j))
    /\ \A j, k \in 1..Len(sv.saves) :
          j # k => sv.saves[j].path # sv.saves[k].path
    /\ sv.pc # "off" => sv.before \subseteq sv.fs

\* Two documents of the same name next to a file of that name.
C24_Witness ==
    /\ sv.pc = "done"
    /\ Len(sv.saves) = 2
    /\ Saved = {1, 2}
    /\ sv.saves[1].path = <<"a", "_", "1", ".", "p">>
    /\ sv.saves[2].path = <<"a", "_", "2", ".", "p">>
    /\ sv.msg[2].filename = <<"a", ".", "p">>
    /\ Cardinality(sv.before) >= 1

\* The last answer of PokeResult so far.
LastPoke == bg.pokes[Len(bg.pokes)]

\* C25: with -poll nothing is printed or written before a result that is
\* not pending, a pending job is poked again, and the command returns at
\* the first such result or the first error of PokeResult; without -poll
\* there is one PokeResult and its result is printed, pending or not.
C25_PollUntilDone ==
    bg.pc # "off" =>
        /\ \A k \in 1..(Len(bg.pokes) - 1) :
              bg.poll /\ bg.pokes[k].err = "nil" /\ bg.pokes[k].reason = "pending"
        /\ (bg.poll /\ (bg.stdout # <<>> \/ bg.files # {})) =>
              LastPoke.err = "nil" /\ LastPoke.reason # "pending"
        /\ (bg.pc = "loop" /\ bg.pokes # <<>>) =>
              bg.poll /\ LastPoke.err = "nil" /\ LastPoke.reason = "pending"
        /\ bg.pc = "done" =>
              /\ bg.poll => LastPoke.err # "nil" \/ LastPoke.reason # "pending"
              /\ LastPoke.err # "nil" => bg.ret = "poke" /\ bg.stdout = <<>>
              /\ LastPoke.err = "nil" => bg.stdout = BgLines(LastPoke)
        /\ ~bg.poll => Len(bg.pokes) <= 1 /\ (bg.pokes # <<>> => bg.pc = "done")

\* -poll saw the job pending twice, then printed its result.
C25_Witness ==
    /\ bg.pc = "done"
    /\ bg.poll
    /\ Len(bg.pokes) = 3
    /\ bg.stdout = <<"t", "- Writing doc">>
    /\ bg.files = {3}

\* Without -poll a pending result is printed.
C25_WitnessNoPoll ==
    /\ bg.pc = "done"
    /\ ~bg.poll
    /\ LastPoke.reason = "pending"
    /\ bg.stdout = <<"t">>

\* The handle a deferred CloseHandle (or token.Close) is passed.
HandleOf(d) ==
    CASE d = "close_token" -> {"token"}
      [] d = "close_rtoken" -> {"rtoken"}
      [] d = "close_pipeR" -> {"pipeR"}
      [] d = "close_pipeW" -> {"pipeW"}
      [] d = "close_errR" -> {"errR"}
      [] d = "close_errW" -> {"errW"}
      [] d = "close_proc" -> {"proc"}
      [] d = "close_thread" -> {"thread"}
      [] OTHER -> {}

\* The function of p returns in this step and runs its deferred calls.
Returns(p) == defers'[p] # defers[p] /\ Len(defers'[p]) < Len(defers[p])

\* C26: within one Windows invocation no handle is passed to a close call
\* after it was closed: every deferred close finds its handle still open.
C26_HandlesClosedOnce ==
    [][\A p \in Procs :
         (IsWindows(strategy) /\ Returns(p)) =>
             \A d \in FrameDefers(defers[p]) : HandleOf(d) \subseteq held[p]]_vars

\* C27: runAsync terminates on every execution, a failed Accumulate and a
\* cancelled context included: it returns.
C27_RunAsyncTerminates == <>(ra.pc = "done")

\* C28: mainImpl terminates under every interleaving of the cancellation
\* with the delivery of the fragments: the printer closes end, the stream
\* call is not left in its send, and <-end is passed.
C28_MainImplTerminates == <>(mi.pc = "done" /\ mi.endClosed /\ mi.closes = 1)

\* The text the printer wrote for the fragments, before its last step.
Streamed == IF mi.added THEN Front(mi.stdout) ELSE mi.stdout

\* C29: once the printer is done, what it wrote ends with a newline: one is
\* added exactly when the streamed text does not end with one.
C29_EndsWithNewline ==
    mi.g = "done" =>
        /\ mi.stdout # <<>>
        /\ mi.stdout[Len(mi.stdout)] = "\n"
        /\ mi.added <=> (Streamed = <<>> \/ Streamed[Len(Streamed)] # "\n")

\* C30: Query ends, for every answer of the server, in a response or an
\* error and never in a panic; a status other than 200, a body that does
\* not decode, a number of candidates other than one and a candidate without
\* parts each give an error.
C30_QueryNeverPanics ==
    gq.pc \notin {"off", "sent"} =>
        /\ gq.pc = "returned"
        /\ gq.res.err # "nil" \/ gq.res.response # ""
        /\ (gq.resp.do = "nil" /\ gq.resp.read) =>
              /\ gq.resp.status # StatusOK => gq.res.err # "nil"
              /\ ~gq.resp.decodes => gq.res.err # "nil"
              /\ Len(gq.resp.candidates) # 1 => gq.res.err # "nil"
              /\ (Len(gq.resp.candidates) = 1 /\ gq.resp.candidates[1] = <<>>) =>
                    gq.res.err # "nil"

====
